---- MODULE Spec2Model ----
(***************************************************************************)
(* State-machine model of the FRESH-EYE front end.  Each page component    *)
(* is a set of React state cells plus the event handlers, effects and      *)
(* promise continuations that write them.  One action is one event-loop    *)
(* task: a handler or continuation together with every microtask it        *)
(* triggers (the catch/finally blocks of the awaiting callers included).   *)
(*                                                                         *)
(* Prefixes name the revision a definition is translated from:             *)
(*   SD_  src/src/pages/SpoilageDetection.tsx                              *)
(*   P0_  src/unnamed/part_000 lines 1-779    (SpoilageDetection, polling) *)
(*   P1_  src/unnamed/part_001 lines 1-985    (SpoilageDetection, Analyze) *)
(*   SL_  src/src/pages/ScanLabel.tsx lines 1-1178 (ScanLabel, first rev.) *)
(*   SIM_ src/unnamed/part_000 lines 781-1370 (SpoilageDetection, simulated)*)
(*   PF_  src/unnamed/part_001 lines 987-1632  (Profile)                    *)
(*   ES_  src/src/pages/EmailSettings.tsx      (EmailSettings)              *)
(* SLR_, SDO_, RF_, IOT_, E32_ follow one mechanism of a page more closely; *)
(* PN_, CV_, HS_ apply a function of a page on its own.                     *)
(***************************************************************************)
EXTENDS Integers, Sequences, FiniteSets, Bags, TLC

VARIABLES
    scanMode,           \* useState scanMode: the selected tab
    isScanning,         \* useState isScanning
    scanResult,         \* useState scanResult (NoResult is null)
    cameraError,        \* useState cameraError (null is the string "null")
    hasPermission,      \* useState hasPermission: "null" | "true" | "false"
    isModelLoading,     \* useState isModelLoading
    cameraSource,       \* useState cameraSource: "laptop" | "esp32"
    esp32ImageUrl,      \* useState esp32ImageUrl: "" or the camera's URL (its ?t= stamp left out)
    esp32ImageLoading,  \* useState esp32ImageLoading
    esp32Intervals,     \* number of live setInterval(fetchEsp32Image) timers
    webcam,             \* the <Webcam> element: "off" | "requesting" | "streaming" | "error"
    modelPc,            \* loadModel: "pending" | "done"
    calls,              \* the analysis dispatches in flight: a bag of call records
    rev,                \* the component that is mounted: "SD" | "P0" | "P1" | "SL" | "SIM" |
                        \* "Profile" | "EmailSettings", or "none" once it has unmounted
    isUploading,        \* useState isUploading (P0, P1)
    uploadedImage,      \* useState uploadedImage (P1, SL): null or a data URI
    capturedImage,      \* useState capturedImage (P1, SL): null or a data URI
    ollamaResult,       \* useState ollamaResult (P1)
    backendResponse,    \* useState backendResponse (P1)
    esp32Image,         \* useState esp32Image (SL): null or a data URI
    devicesPc,          \* enumerateDevices().then(...): "pending" | "done" (SL)
    iotData,            \* useState iotData (P0, P1)
    iotPc,              \* the polling effect: "rendered" | "polling" | "unmounted"
    iotInterval,        \* number of live setInterval(fetchIoTData) timers
    iotCalls,           \* the GET /get_iot_data requests in flight: a bag of records
    cameraFrame,        \* the frame the ESP32 camera serves at /cam.jpg now
    displayedFrame,     \* the frame the <img> of the ESP32 camera shows (0: none)
    arg,                \* the argument of a function applied on its own
    out,                \* the value that function returned
    apiResult,          \* useState apiResult (SL)
    iotShown,           \* the request whose response iotData holds (history variable)
    profile,            \* useState profile (Profile)
    isEditing,          \* useState isEditing (Profile)
    editedProfile,      \* useState editedProfile (Profile)
    newDietaryPref,     \* useState newDietaryPref (Profile): "" or the selected option
    newAllergy,         \* useState newAllergy (Profile)
    newHealthCondition, \* useState newHealthCondition (Profile)
    settings,           \* useState settings (EmailSettings)
    newRecipient,       \* useState newRecipient (EmailSettings): the text typed
    ev                  \* the task that produced this state (history variable)

vars == <<scanMode, isScanning, scanResult, cameraError, hasPermission,
          isModelLoading, cameraSource, esp32ImageUrl, esp32ImageLoading,
          esp32Intervals, webcam, modelPc, calls, rev, isUploading, uploadedImage,
          capturedImage, ollamaResult, backendResponse, esp32Image, devicesPc,
          iotData, iotPc, iotInterval, iotCalls, cameraFrame, displayedFrame, arg, out,
          apiResult, iotShown, profile, isEditing, editedProfile, newDietaryPref,
          newAllergy, newHealthCondition, settings, newRecipient, ev>>

\* the cells of the Profile page and of the EmailSettings page
profileCells == <<profile, isEditing, editedProfile, newDietaryPref, newAllergy,
                  newHealthCondition>>
emailCells == <<settings, newRecipient>>
forms == <<profileCells, emailCells>>

\* the cells added for the specifications of single components; every other
\* specification holds them at `LateIdle`
late == <<apiResult, iotShown, forms>>

\* the cells that the specifications of the polling effect, of the ESP32 frames and of
\* the functions applied on their own write; the page specifications leave them alone
apart == <<iotData, iotPc, iotInterval, iotCalls, cameraFrame, displayedFrame, arg, out,
           late>>

\* the cells SpoilageDetection.tsx does not have
others == <<rev, isUploading, uploadedImage, capturedImage, ollamaResult, backendResponse,
            esp32Image, devicesPc, apart>>

----------------------------------------------------------------------------
(* Bounds of the model *)

\* analysis dispatches that may be in flight at once
MaxCalls == 2

(* Program constants *)

\* setTimeout(..., 10000) around the POST
TimeoutMs == 10000
\* http://192.168.65.102/cam.jpg?t=...
Esp32Url == "http://192.168.65.102/cam.jpg"

null == "null"
NoResult == [kind |-> "null"]

Classes == {"apple"}
\* data.spoilage_status: missing, or a string (possibly empty)
SpoilageInputs == {"absent", "SPOILED", ""}
Statuses == {"success", "error"}
Messages == {"absent", "Model unavailable"}

\* the bodies the backend can answer a 2xx with: a success body, an error body with or
\* without a message, and one that is not JSON
Body(parses, status, cls, spoil, msg) ==
    [parses |-> parses, status |-> status, predictedClass |-> cls, confidence |-> 92,
     spoilage_status |-> spoil, message |-> msg]

JsonBodies ==
    {Body(TRUE, "success", cls, sp, "absent") : cls \in Classes, sp \in SpoilageInputs}
    \cup {Body(TRUE, "error", "apple", "absent", m) : m \in Messages}
    \cup {Body(FALSE, "error", "apple", "absent", "absent")}

\* String.prototype.toLowerCase on the spoilage strings of the model
toLowerCase(s) ==
    IF s = "SPOILED" THEN "spoiled" ELSE s

mockSpoilageResult ==
    [kind |-> "result", freshness |-> 75, status |-> "good", confidence |-> 92,
     predictedClass |-> "undefined"]

\* the error strings the handlers store in cameraError
MsgDenied == "Camera access denied. Please enable camera permissions in your browser settings."
MsgModel == "Failed to load image analysis model"
MsgUserMedia == "Unable to access camera. Please check permissions."
MsgWebcamNotReady == "Webcam not ready"
MsgNoScreenshot == "Failed to capture image from webcam"
MsgNoEsp32 == "No ESP32 image currently displayed"
MsgBlob == "Failed to fetch image for blob conversion"
MsgFetchRejected == "Failed to fetch"
MsgAborted == "The user aborted a request."
MsgServer == "Failed to get prediction from server"
MsgSyntax == "Unexpected token in JSON"
MsgAnalyze == "Failed to analyze image"

\* a dispatch: where it stands, who started it, what it fetches, how long its POST has
\* been out, and whether a result older than the dispatch is still in scanResult
Call(phase, origin, src, age, heldPrior) ==
    [phase |-> phase, origin |-> origin, src |-> src, age |-> age, heldPrior |-> heldPrior]

InFlight == BagToSet(calls)
Started(r) == calls (+) SetToBag({r})
Ended(r) == calls (-) SetToBag({r})
Moved(r, q) == (calls (-) SetToBag({r})) (+) SetToBag({q})
Room == BagCardinality(calls) < MaxCalls

\* between the start of handleImageAnalysis and its finally block
Running == {"converting", "posting", "text", "json"}

\* the task behind a step: the handler, how the code classified its input, who started
\* the dispatch it belongs to, and the response it read (as the server sent it)
EvResp(op, cause, origin, resp) ==
    [op |-> op, cause |-> cause, origin |-> origin, resp |-> resp]
Ev(op, cause, origin) == EvResp(op, cause, origin, "none")
Task == Ev("task", "none", "none")

\* a response as the server sent it: non-2xx, not JSON, or the status field of its body
RespKind(ok, b) == IF ~ok THEN "non2xx" ELSE IF ~b.parses THEN "unparsable" ELSE b.status

\* a write of scanResult ends every dispatch's "a result older than me is shown"
Forget(r) == [r EXCEPT !.heldPrior = FALSE]
ResultWritten(b) == BagOfAll(Forget, b)

\* JSON values are records tagged with their kind; a string holds a sequence of
\* fragments (characters, or longer pieces where only their concatenation matters)
Num(n) == [kind |-> "number", v |-> n]
\* no value yet
Nothing == [kind |-> "none"]

\* const mockIoTData of part_000 and part_001
Bool(b) == [kind |-> "boolean", b |-> b]
Text(fragments) == [kind |-> "string", chars |-> fragments]
mockIoTData == [temperature |-> NoResult, humidity |-> NoResult, connected |-> Bool(FALSE),
                lastUpdate |-> Text(<<"Never">>)]

\* the cells of `late` as their useState calls initialise them
\* const initialProfile of part_001 (the fields the handlers of Profile write or the
\* page's switches edit) and the option lists its Selects offer, cut to the options of
\* the initial lists
initialProfile ==
    [dietaryPreferences |-> <<"Vegetarian", "Low-Sodium">>,
     allergies |-> <<"Nuts", "Shellfish">>,
     healthConditions |-> <<"Pre-diabetes">>,
     notifications |-> [emailAlerts |-> TRUE]]
dietaryOptions == {"Vegetarian", "Low-Sodium"}
allergyOptions == {"Nuts", "Shellfish"}
healthConditionOptions == {"Pre-diabetes"}

\* const initialSettings of EmailSettings.tsx: its recipients and one of its switches
initialSettings ==
    [recipients |-> <<"sarah.johnson@email.com">>, email |-> [dailySummary |-> TRUE]]

FormsIdle ==
    /\ profile = initialProfile
    /\ isEditing = FALSE
    /\ editedProfile = initialProfile
    /\ newDietaryPref = ""
    /\ newAllergy = ""
    /\ newHealthCondition = ""
    /\ settings = initialSettings
    /\ newRecipient = ""

LateIdle ==
    /\ apiResult = NoResult
    /\ iotShown = 0
    /\ FormsIdle

\* the cells of `apart` where the page specifications hold them
ApartIdle ==
    /\ iotData = mockIoTData
    /\ iotPc = "rendered"
    /\ iotInterval = 0
    /\ iotCalls = EmptyBag
    /\ cameraFrame = 0
    /\ displayedFrame = 0
    /\ arg = Nothing
    /\ out = Nothing
    /\ LateIdle

\* the Webcam element is mounted on the camera tab with the laptop source
WebcamMounted(mode, source) == mode = "camera" /\ source = "laptop"

----------------------------------------------------------------------------
(* SpoilageDetection, src/src/pages/SpoilageDetection.tsx *)

SD_Init ==
    /\ scanMode = "camera"
    /\ isScanning = FALSE
    /\ scanResult = NoResult
    /\ cameraError = null
    /\ hasPermission = "null"
    /\ isModelLoading = TRUE
    /\ cameraSource = "laptop"
    /\ esp32ImageUrl = ""
    /\ esp32ImageLoading = FALSE
    /\ esp32Intervals = 0
    /\ webcam = "requesting"
    /\ modelPc = "pending"
    /\ calls = EmptyBag
    /\ rev = "SD"
    /\ isUploading = FALSE
    /\ uploadedImage = null
    /\ capturedImage = null
    /\ ollamaResult = NoResult
    /\ backendResponse = NoResult
    /\ esp32Image = null
    /\ devicesPc = "done"
    /\ ApartIdle
    /\ ev = Ev("mount", "none", "none")

\* the state no step of a dispatch writes
sdPage == <<scanMode, hasPermission, isModelLoading, cameraSource, esp32ImageUrl,
            esp32Intervals, webcam, modelPc, others>>
\* the state a dispatch writes
sdScan == <<isScanning, scanResult, cameraError, esp32ImageLoading, calls>>

\* disabled={!!cameraError || isScanning || isModelLoading}, negated
SD_CaptureEnabled_NoErrorCheck == ~isScanning /\ ~isModelLoading
SD_CaptureEnabled == cameraError = null /\ ~isScanning /\ ~isModelLoading

\* the second effect: getUserMedia({video: true}) settles
SD_checkCameraPermission(granted) ==
    /\ hasPermission = "null"
    /\ hasPermission' = IF granted THEN "true" ELSE "false"
    /\ cameraError' = IF granted THEN cameraError ELSE MsgDenied
    /\ ev' = Ev("checkCameraPermission", IF granted THEN "granted" ELSE "denied", "none")
    /\ UNCHANGED <<scanMode, isModelLoading, cameraSource, esp32ImageUrl, esp32Intervals,
                   webcam, modelPc>>
    /\ UNCHANGED <<isScanning, scanResult, esp32ImageLoading, calls>>
    /\ UNCHANGED others

\* the third effect: tf.ready() and mobilenet.load() settle
SD_loadModel(loaded) ==
    /\ modelPc = "pending"
    /\ modelPc' = "done"
    /\ isModelLoading' = IF loaded THEN FALSE ELSE isModelLoading
    /\ cameraError' = IF loaded THEN cameraError ELSE MsgModel
    /\ ev' = Ev("loadModel", IF loaded THEN "loaded" ELSE "failed", "none")
    /\ UNCHANGED <<scanMode, hasPermission, cameraSource, esp32ImageUrl, esp32Intervals,
                   webcam>>
    /\ UNCHANGED <<isScanning, scanResult, esp32ImageLoading, calls>>
    /\ UNCHANGED others

\* <Webcam>: its own getUserMedia settles; onUserMediaError stores an error
SD_onUserMedia(granted) ==
    /\ webcam = "requesting"
    /\ webcam' = IF granted THEN "streaming" ELSE "error"
    /\ cameraError' = IF granted THEN cameraError ELSE MsgUserMedia
    /\ ev' = Task
    /\ UNCHANGED <<scanMode, hasPermission, isModelLoading, cameraSource, esp32ImageUrl,
                   esp32Intervals, modelPc>>
    /\ UNCHANGED <<isScanning, scanResult, esp32ImageLoading, calls>>
    /\ UNCHANGED others

\* <Tabs onValueChange>: the Webcam element is mounted with the camera tab only
SD_setScanMode(m) ==
    /\ m # scanMode
    /\ scanMode' = m
    /\ webcam' = IF WebcamMounted(m, cameraSource) THEN "requesting" ELSE "off"
    /\ ev' = Task
    /\ UNCHANGED <<hasPermission, isModelLoading, cameraSource, esp32ImageUrl,
                   esp32Intervals, modelPc>>
    /\ UNCHANGED sdScan
    /\ UNCHANGED others

\* <select onChange> and the [cameraSource] effect with the cleanup of the previous one
SD_setCameraSource(s) ==
    /\ scanMode = "camera"
    /\ s # cameraSource
    /\ cameraSource' = s
    /\ webcam' = IF WebcamMounted(scanMode, s) THEN "requesting" ELSE "off"
    /\ IF s = "esp32"
       THEN /\ esp32ImageLoading' = TRUE
            /\ esp32ImageUrl' = Esp32Url
            /\ esp32Intervals' = esp32Intervals + 1
       ELSE /\ esp32ImageLoading' = FALSE
            /\ esp32ImageUrl' = ""
            /\ esp32Intervals' = esp32Intervals - 1
    /\ ev' = Ev("setCameraSource", s, "none")
    /\ UNCHANGED <<scanMode, hasPermission, isModelLoading, modelPc>>
    /\ UNCHANGED <<isScanning, scanResult, cameraError, calls>>
    /\ UNCHANGED others

\* setInterval(fetchEsp32Image, 1000) fires
SD_fetchEsp32Image ==
    /\ esp32Intervals > 0
    /\ esp32ImageLoading' = TRUE
    /\ esp32ImageUrl' = Esp32Url
    /\ ev' = Task
    /\ UNCHANGED <<scanMode, hasPermission, isModelLoading, cameraSource, esp32Intervals,
                   webcam, modelPc>>
    /\ UNCHANGED <<isScanning, scanResult, cameraError, calls>>
    /\ UNCHANGED others

\* <img onLoad> / <img onError> of the displayed ESP32 frame
SD_esp32ImageSettled ==
    /\ scanMode = "camera"
    /\ cameraSource = "esp32"
    /\ esp32ImageUrl # ""
    /\ esp32ImageLoading
    /\ esp32ImageLoading' = FALSE
    /\ ev' = Task
    /\ UNCHANGED sdPage
    /\ UNCHANGED <<isScanning, scanResult, cameraError, calls>>

\* what handleImageAnalysis does with the body of a 2xx response (lines 269-282)
SD_bodyCause(b) ==
    IF ~b.parses THEN "unparsable"
    ELSE IF b.status = "success" THEN "success" ELSE "status"

\* the message of the Error that reaches the catch block
SD_bodyMessage(b) ==
    CASE SD_bodyCause(b) = "unparsable" -> MsgSyntax
      [] SD_bodyCause(b) = "status" ->
             IF b.message = "absent" THEN MsgAnalyze ELSE b.message
      [] OTHER -> null

\* the record setScanResult stores
SD_bodyResult(b) ==
    [mockSpoilageResult EXCEPT
        !.predictedClass = b.predictedClass,
        !.confidence = b.confidence,
        !.status = IF b.spoilage_status = "absent" \/ toLowerCase(b.spoilage_status) = ""
                   THEN "good"
                   ELSE toLowerCase(b.spoilage_status)]

\* catch + finally of handleImageAnalysis, then (camera origin) the finally of the
\* awaiting handleCameraCapture: dispatch r ends with an error; left is what stays of it
SD_catchFinally_KeepError(r, left, cause, resp, msg) ==
    /\ cameraError' = cameraError
    /\ isScanning' = FALSE
    /\ esp32ImageLoading' = IF r.origin = "camera" THEN FALSE ELSE esp32ImageLoading
    /\ calls' = left
    /\ ev' = EvResp("analysisEnded", cause, r.origin, resp)
    /\ UNCHANGED scanResult
    /\ UNCHANGED sdPage

SD_catchFinally(r, left, cause, resp, msg) ==
    /\ cameraError' = msg
    /\ isScanning' = FALSE
    /\ esp32ImageLoading' = IF r.origin = "camera" THEN FALSE ELSE esp32ImageLoading
    /\ calls' = left
    /\ ev' = EvResp("analysisEnded", cause, r.origin, resp)
    /\ UNCHANGED scanResult
    /\ UNCHANGED sdPage

\* setScanResult + finally of handleImageAnalysis (and of handleCameraCapture)
SD_resultFinally(r, resp, res) ==
    /\ scanResult' = res
    /\ isScanning' = FALSE
    /\ esp32ImageLoading' = IF r.origin = "camera" THEN FALSE ELSE esp32ImageLoading
    /\ calls' = ResultWritten(Ended(r))
    /\ ev' = EvResp("analysisEnded", "success", r.origin, resp)
    /\ UNCHANGED cameraError
    /\ UNCHANGED sdPage

\* the file input is rendered on the upload tab, whatever cameraError and isModelLoading
SD_FileInputShown_IfCameraReady == scanMode = "upload" /\ cameraError = null /\ ~isModelLoading
SD_FileInputShown == scanMode = "upload"

\* <input type=file onChange>: handleFileUpload starts a FileReader when a file is chosen
SD_handleFileUpload(hasFile) ==
    /\ SD_FileInputShown
    /\ IF hasFile
       THEN /\ Room
            /\ calls' = Started(Call("reading", "upload", "data", 0, FALSE))
       ELSE calls' = calls
    /\ ev' = Ev("handleFileUpload", IF hasFile THEN "file" ELSE "nofile", "upload")
    /\ UNCHANGED sdPage
    /\ UNCHANGED <<isScanning, scanResult, cameraError, esp32ImageLoading>>

\* reader.onload: handleImageAnalysis(imageSrc) runs to its first await
SD_readerOnload(r) ==
    /\ r.phase = "reading"
    /\ isScanning' = TRUE
    /\ calls' = Moved(r, Call("converting", "upload", "data", 0, scanResult # NoResult))
    /\ ev' = Task
    /\ UNCHANGED sdPage
    /\ UNCHANGED <<scanResult, cameraError, esp32ImageLoading>>

\* the FileReader fails: no onerror handler is installed, the read is dropped
SD_readerError(r) ==
    /\ r.phase = "reading"
    /\ calls' = Ended(r)
    /\ ev' = Task
    /\ UNCHANGED sdPage
    /\ UNCHANGED <<isScanning, scanResult, cameraError, esp32ImageLoading>>

\* the image handleCameraCapture hands on ("data" or "esp32"), or the message it throws
SD_captureSource ==
    IF cameraSource = "laptop"
    THEN IF ~WebcamMounted(scanMode, cameraSource) THEN MsgWebcamNotReady
         ELSE IF webcam # "streaming" THEN MsgNoScreenshot
         ELSE "data"
    ELSE IF esp32ImageUrl = "" THEN MsgNoEsp32 ELSE "esp32"

\* the Capture & Analyze button: handleCameraCapture up to its first await
SD_handleCameraCapture ==
    /\ scanMode = "camera"
    /\ SD_CaptureEnabled
    /\ scanResult' = NoResult
    /\ IF SD_captureSource \in {"data", "esp32"}
       THEN /\ Room
            /\ cameraError' = null
            /\ isScanning' = TRUE
            /\ calls' = ResultWritten(calls)
                            (+) SetToBag({Call("converting", "camera", SD_captureSource, 0, FALSE)})
            /\ ev' = Ev("handleCameraCapture", "dispatched", "camera")
            /\ UNCHANGED esp32ImageLoading
       ELSE /\ cameraError' = SD_captureSource
            /\ isScanning' = FALSE
            /\ esp32ImageLoading' = FALSE
            /\ calls' = ResultWritten(calls)
            /\ ev' = Ev("handleCameraCapture", "threw", "camera")
    /\ UNCHANGED sdPage

\* await fetch(imageSrc) settles: a data URI always loads, the ESP32 URL is a network
\* fetch; on success the 10 s timer is armed and the POST is sent
SD_imageFetched(r, outcome) ==
    /\ r.phase = "converting"
    /\ outcome # "ok" => r.src = "esp32"
    /\ CASE outcome = "ok" ->
              /\ calls' = Moved(r, Call("posting", r.origin, "data", 0, r.heldPrior))
              /\ ev' = Ev("postSent", "sent", r.origin)
              /\ UNCHANGED sdPage
              /\ UNCHANGED <<isScanning, scanResult, cameraError, esp32ImageLoading>>
         [] outcome = "notok" -> SD_catchFinally(r, Ended(r), "convert", "none", MsgBlob)
         [] OTHER -> SD_catchFinally(r, Ended(r), "convertReject", "none", MsgFetchRejected)

\* the timer's delay later, for a dispatch whose POST is out
Older(r) == IF r.phase = "posting" THEN [r EXCEPT !.age = TimeoutMs] ELSE r

\* time passes while a POST is pending; a due timer runs before the clock moves on
SD_Tick ==
    /\ \E r \in InFlight : r.phase = "posting"
    /\ \A r \in InFlight : r.phase = "posting" => r.age < TimeoutMs
    /\ calls' = BagOfAll(Older, calls)
    /\ ev' = Task
    /\ UNCHANGED sdPage
    /\ UNCHANGED <<isScanning, scanResult, cameraError, esp32ImageLoading>>

\* setTimeout(() => controller.abort(), 10000) is due for dispatch r
SD_timeoutDue_Never(r) == FALSE
SD_timeoutDue(r) == r.phase = "posting" /\ r.age = TimeoutMs

\* the timer callback: controller.abort() rejects the pending fetch (AbortError); the
\* request stays with the server, whose answer no longer has a reader
SD_timeout(r) ==
    /\ SD_timeoutDue(r)
    /\ SD_catchFinally(r, Moved(r, Call("aborted", "none", "data", 0, FALSE)),
                       "timeout", "none", MsgAborted)

\* the answer to an aborted request arrives: the fetch promise is already rejected
SD_lateResponse(r) ==
    /\ r.phase = "aborted"
    /\ calls' = Ended(r)
    /\ ev' = Ev("lateResponse", "ignored", "none")
    /\ UNCHANGED sdPage
    /\ UNCHANGED <<isScanning, scanResult, cameraError, esp32ImageLoading>>

\* the POST's response headers arrive: clearTimeout, then the body is awaited
SD_postResponds(r, ok) ==
    /\ r.phase = "posting"
    /\ calls' = Moved(r, [r EXCEPT !.phase = IF ok THEN "json" ELSE "text", !.age = 0])
    /\ ev' = Task
    /\ UNCHANGED sdPage
    /\ UNCHANGED <<isScanning, scanResult, cameraError, esp32ImageLoading>>

\* the POST's fetch rejects (network error)
SD_postRejects(r) ==
    /\ r.phase = "posting"
    /\ SD_catchFinally(r, Ended(r), "reject", "none", MsgFetchRejected)

\* await result.text() settles for a non-2xx response: the Error is thrown
SD_errorTextRead(r) ==
    /\ r.phase = "text"
    /\ SD_catchFinally(r, Ended(r), "non2xx", "non2xx", MsgServer)

\* await result.json() settles for a 2xx response
SD_jsonRead(r, b) ==
    /\ r.phase = "json"
    /\ IF SD_bodyCause(b) = "success"
       THEN SD_resultFinally(r, RespKind(TRUE, b), SD_bodyResult(b))
       ELSE SD_catchFinally(r, Ended(r), SD_bodyCause(b), RespKind(TRUE, b),
                            SD_bodyMessage(b))

SD_Next ==
    \/ \E g \in BOOLEAN : SD_checkCameraPermission(g)
    \/ \E l \in BOOLEAN : SD_loadModel(l)
    \/ \E g \in BOOLEAN : SD_onUserMedia(g)
    \/ \E m \in {"camera", "upload", "iot"} : SD_setScanMode(m)
    \/ \E s \in {"laptop", "esp32"} : SD_setCameraSource(s)
    \/ SD_fetchEsp32Image
    \/ SD_esp32ImageSettled
    \/ \E f \in BOOLEAN : SD_handleFileUpload(f)
    \/ \E r \in InFlight : SD_readerOnload(r)
    \/ \E r \in InFlight : SD_readerError(r)
    \/ SD_handleCameraCapture
    \/ \E r \in InFlight, o \in {"ok", "notok", "reject"} : SD_imageFetched(r, o)
    \/ SD_Tick
    \/ \E r \in InFlight : SD_timeout(r)
    \/ \E r \in InFlight : SD_lateResponse(r)
    \/ \E r \in InFlight, ok \in BOOLEAN : SD_postResponds(r, ok)
    \/ \E r \in InFlight : SD_postRejects(r)
    \/ \E r \in InFlight : SD_errorTextRead(r)
    \/ \E r \in InFlight, b \in JsonBodies : SD_jsonRead(r, b)

SD_Spec == SD_Init /\ [][SD_Next]_vars

\* the event loop runs every settled promise and due timer; the user keeps acting
SD_FairSpec == SD_Spec /\ WF_vars(SD_Next)

----------------------------------------------------------------------------
(* Claims about src/src/pages/SpoilageDetection.tsx *)

\* a dispatch whose POST is out and unanswered, or whose answer is being read
Pending(r) == r.phase \in {"posting", "text", "json"}

\* C1: every analysis dispatch, from the camera or from a file, has cleared scanResult
\* before its POST is sent: while a request is pending, no result that was already
\* shown when the dispatch began is still held.
C1_ResultClearedBeforePost ==
    \A r \in InFlight : Pending(r) => ~r.heldPrior

\* C2: whenever a handleImageAnalysis call is between its start and its finally block,
\* isScanning is true, overlapping calls included.
C2_ScanningWhileRunning ==
    (\E r \in InFlight : r.phase \in Running) => isScanning

\* C3: handleImageAnalysis sets scanResult only for a 2xx response whose body parses and
\* has status "success"; for a non-2xx response, an unparsable body or another status
\* the call ends with cameraError non-null, scanResult as it was and isScanning false.
C3_AnalysisOutcome ==
    [][ /\ (scanResult' # scanResult /\ scanResult' # NoResult)
            => (ev'.op = "analysisEnded" /\ ev'.resp = "success")
        /\ (ev'.op = "analysisEnded" /\ ev'.resp \in {"non2xx", "unparsable", "error"})
            => (cameraError' # null /\ scanResult' = scanResult /\ isScanning' = FALSE)
      ]_vars

\* a state right after an analysis failed on its response, with a result still shown
C3_Witness ==
    /\ ev.op = "analysisEnded"
    /\ ev.resp \in {"non2xx", "unparsable", "error"}
    /\ scanResult # NoResult

\* C4: a POST unanswered 10 s after it was sent is aborted (the clock does not pass the
\* timer's delay with the request still out, and the abort is then due); the aborted
\* call ends with cameraError set and isScanning false, without writing scanResult, and
\* the answer that arrives afterwards changes nothing.
C4_TimeoutAborts ==
    [][ /\ \A r \in InFlight :
              r.phase = "posting" => (r.age <= TimeoutMs
                                      /\ (r.age = TimeoutMs => ENABLED SD_timeout(r)))
        /\ (ev'.op = "analysisEnded" /\ ev'.cause = "timeout")
            => /\ \E r \in InFlight : r.phase = "posting" /\ r.age = TimeoutMs
                                      /\ CopiesIn(r, calls') = CopiesIn(r, calls) - 1
               /\ cameraError' # null
               /\ isScanning' = FALSE
               /\ scanResult' = scanResult
        /\ ev'.op = "lateResponse"
            => /\ \E r \in InFlight : r.phase = "aborted"
               /\ scanResult' = scanResult
               /\ cameraError' = cameraError
               /\ isScanning' = isScanning
      ]_vars

\* the answer to an aborted request has just arrived, with an older result on display
C4_Witness ==
    /\ ev.op = "lateResponse"
    /\ scanResult # NoResult
    /\ cameraError = MsgAborted

\* a camera capture has just failed on the network: rejected fetch, non-2xx or timeout
CaptureFailedOnTransport ==
    /\ ev.op = "analysisEnded"
    /\ ev.origin = "camera"
    /\ ev.cause \in {"reject", "non2xx", "timeout"}

\* C5: after a camera capture fails with a network/transport error the user can retry:
\* the Capture & Analyze button becomes enabled again without a reload.
C5_RetryAfterTransportError ==
    CaptureFailedOnTransport ~> SD_CaptureEnabled

\* C7: once checkCameraPermission has failed, cameraError is non-null and the Capture &
\* Analyze button is disabled in every later state.
C7_DenialDisablesCapture ==
    hasPermission = "false" => (cameraError # null /\ ~SD_CaptureEnabled)

\* long after the denial: the model has loaded, the source was switched, an upload has
\* delivered a result and nothing is running
C7_Witness ==
    /\ hasPermission = "false"
    /\ ~isModelLoading
    /\ cameraSource = "esp32"
    /\ scanResult # NoResult
    /\ ~isScanning
    /\ calls = EmptyBag

\* C8: a camera or model error does not block the upload path: with cameraError set or
\* the model still loading, a chosen file is read, dispatched and posted, and a success
\* response sets scanResult.
C8_UploadUnblocked ==
    [][ /\ (scanMode = "upload" /\ Room) => ENABLED SD_handleFileUpload(TRUE)
        /\ \A r \in InFlight :
              r.origin = "upload" =>
                 /\ r.phase = "reading" => ENABLED SD_readerOnload(r)
                 /\ r.phase = "converting" => ENABLED SD_imageFetched(r, "ok")
                 /\ r.phase = "posting" => ENABLED SD_postResponds(r, TRUE)
                 /\ r.phase = "json" => \A b \in JsonBodies : ENABLED SD_jsonRead(r, b)
        /\ (ev'.op = "analysisEnded" /\ ev'.origin = "upload" /\ ev'.resp = "success")
            => scanResult' # NoResult
      ]_vars

\* an upload has just delivered its result although the permission was denied and the
\* model never loaded
C8_Witness ==
    /\ ev.op = "analysisEnded"
    /\ ev.origin = "upload"
    /\ ev.resp = "success"
    /\ scanResult # NoResult
    /\ hasPermission = "false"
    /\ isModelLoading
    /\ modelPc = "done"
    /\ cameraError # null

----------------------------------------------------------------------------
(* SpoilageDetection with IoT polling, src/unnamed/part_000 lines 1-779.    *)
(* The effects, the tabs and the camera selector are those of               *)
(* SpoilageDetection.tsx; the sensor polling writes iotData only and is     *)
(* left out here.                                                           *)

P0_Init ==
    /\ scanMode = "camera"
    /\ isScanning = FALSE
    /\ scanResult = NoResult
    /\ cameraError = null
    /\ hasPermission = "null"
    /\ isModelLoading = TRUE
    /\ cameraSource = "laptop"
    /\ esp32ImageUrl = ""
    /\ esp32ImageLoading = FALSE
    /\ esp32Intervals = 0
    /\ webcam = "requesting"
    /\ modelPc = "pending"
    /\ calls = EmptyBag
    /\ rev = "P0"
    /\ isUploading = FALSE
    /\ uploadedImage = null
    /\ capturedImage = null
    /\ ollamaResult = NoResult
    /\ backendResponse = NoResult
    /\ esp32Image = null
    /\ devicesPc = "done"
    /\ ApartIdle
    /\ ev = Ev("mount", "none", "none")

\* the cells part_000 has and a dispatch does not write
p0Page == <<scanMode, hasPermission, isModelLoading, cameraSource, esp32ImageUrl,
            esp32Intervals, webcam, modelPc, rev, uploadedImage, capturedImage,
            ollamaResult, backendResponse, esp32Image, devicesPc, apart>>

P0_MsgNoEsp32 == "No ESP32 image available"
P0_MsgReadFile == "Failed to read the image file"
P0_MsgProcess == "Failed to process image"
P0_MsgServer == "Server error"

P0_checkCameraPermission(granted) == rev = "P0" /\ SD_checkCameraPermission(granted)
P0_loadModel(loaded) == rev = "P0" /\ SD_loadModel(loaded)
P0_onUserMedia(granted) == rev = "P0" /\ SD_onUserMedia(granted)
P0_setScanMode(m) == rev = "P0" /\ SD_setScanMode(m)
P0_setCameraSource(s) == rev = "P0" /\ SD_setCameraSource(s)
P0_fetchEsp32Image == rev = "P0" /\ SD_fetchEsp32Image
P0_esp32ImageSettled == rev = "P0" /\ SD_esp32ImageSettled

\* disabled={!!cameraError || isScanning || isModelLoading}, negated
P0_CaptureEnabled == cameraError = null /\ ~isScanning /\ ~isModelLoading

\* if (isScanning) return;
P0_alreadyScanning_Ignored == FALSE
P0_alreadyScanning == isScanning

\* the image handleCameraCapture hands on ("data" or "esp32"), or the message it throws
P0_captureSource ==
    IF cameraSource = "laptop"
    THEN IF ~WebcamMounted(scanMode, cameraSource) THEN MsgWebcamNotReady
         ELSE IF webcam # "streaming" THEN MsgNoScreenshot
         ELSE "data"
    ELSE IF esp32ImageUrl = "" THEN P0_MsgNoEsp32 ELSE "esp32"

\* handleCameraCapture up to its first await, called by the Capture & Analyze button
\* (viaButton) or by any other caller holding the handler
P0_handleCameraCapture(viaButton) ==
    /\ rev = "P0"
    /\ viaButton => (scanMode = "camera" /\ P0_CaptureEnabled)
    /\ IF P0_alreadyScanning
       THEN /\ ev' = Ev("handleCameraCapture", "returned", "camera")
            /\ UNCHANGED <<isScanning, scanResult, cameraError, esp32ImageLoading, calls>>
       ELSE /\ scanResult' = NoResult
            /\ IF P0_captureSource \in {"data", "esp32"}
               THEN /\ Room
                    /\ cameraError' = null
                    /\ isScanning' = TRUE
                    /\ calls' = Started(Call("converting", "camera", P0_captureSource, 0, FALSE))
                    /\ ev' = Ev("handleCameraCapture", "dispatched", "camera")
                    /\ UNCHANGED esp32ImageLoading
               ELSE /\ cameraError' = P0_captureSource
                    /\ isScanning' = FALSE
                    /\ esp32ImageLoading' = FALSE
                    /\ calls' = calls
                    /\ ev' = Ev("handleCameraCapture", "threw", "camera")
    /\ UNCHANGED isUploading
    /\ UNCHANGED p0Page

\* <input type=file onChange>: handleFileUpload
P0_handleFileUpload(hasFile) ==
    /\ rev = "P0"
    /\ scanMode = "upload"
    /\ IF hasFile
       THEN /\ Room
            /\ isUploading' = TRUE
            /\ calls' = Started(Call("reading", "upload", "data", 0, FALSE))
       ELSE UNCHANGED <<isUploading, calls>>
    /\ ev' = Ev("handleFileUpload", IF hasFile THEN "file" ELSE "nofile", "upload")
    /\ UNCHANGED <<isScanning, scanResult, cameraError, esp32ImageLoading>>
    /\ UNCHANGED p0Page

\* reader.onload: handleImageAnalysis(imageSrc) runs to its first await
P0_readerOnload(r) ==
    /\ rev = "P0"
    /\ r.phase = "reading"
    /\ calls' = Moved(r, Call("converting", "upload", "data", 0, FALSE))
    /\ ev' = Task
    /\ UNCHANGED <<isScanning, scanResult, cameraError, esp32ImageLoading, isUploading>>
    /\ UNCHANGED p0Page

\* reader.onerror
P0_readerError(r) ==
    /\ rev = "P0"
    /\ r.phase = "reading"
    /\ cameraError' = P0_MsgReadFile
    /\ isUploading' = FALSE
    /\ calls' = Ended(r)
    /\ ev' = Ev("readerError", "error", "upload")
    /\ UNCHANGED <<isScanning, scanResult, esp32ImageLoading>>
    /\ UNCHANGED p0Page

\* the record handleImageAnalysis stores for a success body (lines 355-361)
P0_bodyResult(b) ==
    [kind |-> "result", freshness |-> mockSpoilageResult.freshness,
     predictedClass |-> IF b.predictedClass \in {"absent", ""} THEN "Unknown"
                        ELSE b.predictedClass,
     confidence |-> b.confidence,
     status |-> toLowerCase(IF b.spoilage_status \in {"absent", ""} THEN "good"
                            ELSE b.spoilage_status),
     foodItemName |-> "Unknown Food Item"]

\* handleImageAnalysis rejects with msg: the catch and finally of handleCameraCapture
\* for a capture, the .finally of handleFileUpload for an upload (the rejection itself
\* has no handler there)
P0_analysisFailed(r, cause, msg) ==
    /\ calls' = Ended(r)
    /\ ev' = Ev("analysisEnded", cause, r.origin)
    /\ IF r.origin = "camera"
       THEN /\ cameraError' = msg
            /\ scanResult' = NoResult
            /\ isScanning' = FALSE
            /\ esp32ImageLoading' = FALSE
            /\ UNCHANGED isUploading
       ELSE /\ isUploading' = FALSE
            /\ UNCHANGED <<cameraError, scanResult, isScanning, esp32ImageLoading>>
    /\ UNCHANGED p0Page

\* handleImageAnalysis resolves after setScanResult(result)
P0_analysisSucceeded(r, res) ==
    /\ calls' = Ended(r)
    /\ ev' = Ev("analysisEnded", "success", r.origin)
    /\ scanResult' = res
    /\ IF r.origin = "camera"
       THEN /\ isScanning' = FALSE
            /\ esp32ImageLoading' = FALSE
            /\ UNCHANGED isUploading
       ELSE /\ isUploading' = FALSE
            /\ UNCHANGED <<isScanning, esp32ImageLoading>>
    /\ UNCHANGED cameraError
    /\ UNCHANGED p0Page

\* await fetch(imageSrc) settles; on success the POST is sent
P0_imageFetched(r, outcome) ==
    /\ rev = "P0"
    /\ r.phase = "converting"
    /\ outcome # "ok" => r.src = "esp32"
    /\ CASE outcome = "ok" ->
              /\ calls' = Moved(r, Call("posting", r.origin, "data", 0, FALSE))
              /\ ev' = Ev("postSent", "sent", r.origin)
              /\ UNCHANGED <<isScanning, scanResult, cameraError, esp32ImageLoading,
                             isUploading>>
              /\ UNCHANGED p0Page
         [] outcome = "notok" -> P0_analysisFailed(r, "convert", P0_MsgProcess)
         [] OTHER -> P0_analysisFailed(r, "convertReject", MsgFetchRejected)

\* the POST's response headers arrive
P0_postResponds(r, ok) ==
    /\ rev = "P0"
    /\ r.phase = "posting"
    /\ calls' = Moved(r, [r EXCEPT !.phase = IF ok THEN "json" ELSE "text"])
    /\ ev' = Task
    /\ UNCHANGED <<isScanning, scanResult, cameraError, esp32ImageLoading, isUploading>>
    /\ UNCHANGED p0Page

\* the POST's fetch rejects (network error)
P0_postRejects(r) ==
    /\ rev = "P0"
    /\ r.phase = "posting"
    /\ P0_analysisFailed(r, "reject", MsgFetchRejected)

\* await response.text() settles for a non-2xx response: the Error is thrown
P0_errorTextRead(r) ==
    /\ rev = "P0"
    /\ r.phase = "text"
    /\ P0_analysisFailed(r, "non2xx", P0_MsgServer)

\* await response.json() settles for a 2xx response
P0_jsonRead(r, b) ==
    /\ rev = "P0"
    /\ r.phase = "json"
    /\ IF SD_bodyCause(b) = "success"
       THEN P0_analysisSucceeded(r, P0_bodyResult(b))
       ELSE P0_analysisFailed(r, SD_bodyCause(b), SD_bodyMessage(b))

P0_Next ==
    \/ \E g \in BOOLEAN : P0_checkCameraPermission(g)
    \/ \E l \in BOOLEAN : P0_loadModel(l)
    \/ \E g \in BOOLEAN : P0_onUserMedia(g)
    \/ \E m \in {"camera", "upload", "iot"} : P0_setScanMode(m)
    \/ \E s \in {"laptop", "esp32"} : P0_setCameraSource(s)
    \/ P0_fetchEsp32Image
    \/ P0_esp32ImageSettled
    \/ \E v \in BOOLEAN : P0_handleCameraCapture(v)
    \/ \E f \in BOOLEAN : P0_handleFileUpload(f)
    \/ \E r \in InFlight : P0_readerOnload(r)
    \/ \E r \in InFlight : P0_readerError(r)
    \/ \E r \in InFlight, o \in {"ok", "notok", "reject"} : P0_imageFetched(r, o)
    \/ \E r \in InFlight, ok \in BOOLEAN : P0_postResponds(r, ok)
    \/ \E r \in InFlight : P0_postRejects(r)
    \/ \E r \in InFlight : P0_errorTextRead(r)
    \/ \E r \in InFlight, b \in JsonBodies : P0_jsonRead(r, b)

P0_Spec == P0_Init /\ [][P0_Next]_vars

----------------------------------------------------------------------------
(* SpoilageDetection with separate Capture and Analyze steps,               *)
(* src/unnamed/part_001 lines 1-985.  The sensor polling and the feed URL   *)
(* of the ESP32 preview (display only) are left out.                        *)

P1_Init ==
    /\ scanMode = "camera"
    /\ isScanning = FALSE
    /\ scanResult = NoResult
    /\ cameraError = null
    /\ hasPermission = "null"
    /\ isModelLoading = TRUE
    /\ cameraSource = "laptop"
    /\ esp32ImageUrl = ""
    /\ esp32ImageLoading = FALSE
    /\ esp32Intervals = 0
    /\ webcam = "requesting"
    /\ modelPc = "pending"
    /\ calls = EmptyBag
    /\ rev = "P1"
    /\ isUploading = FALSE
    /\ uploadedImage = null
    /\ capturedImage = null
    /\ ollamaResult = NoResult
    /\ backendResponse = NoResult
    /\ esp32Image = null
    /\ devicesPc = "done"
    /\ ApartIdle
    /\ ev = Ev("mount", "none", "none")

\* cells no handler of part_001 writes after the effects have run
p1Fixed == <<esp32ImageUrl, rev, esp32Image, devicesPc, apart>>
\* the cells the effects, the tabs and the camera selector write
p1Page == <<scanMode, hasPermission, isModelLoading, cameraSource, esp32Intervals, webcam,
            modelPc>>
\* the cells the capture, upload and analysis handlers write
p1Scan == <<isScanning, scanResult, cameraError, esp32ImageLoading, calls, isUploading,
            uploadedImage, capturedImage, ollamaResult, backendResponse>>

P1_MsgCapture == "Failed to capture image."
P1_MsgUploadAnalyze == "Failed to analyze food item. Please try again with a clear image."

\* JSON values of the response fields: a missing key, null, or an object
Undefined == [kind |-> "undefined"]
ApiResult == [kind |-> "result", predictedClass |-> "apple", source |-> "api"]
OllamaResult == [kind |-> "result", predictedClass |-> "apple", source |-> "ollama"]

\* ToBoolean of a field value: objects, and strings other than ""
Truthy(v) == v \notin {Undefined, NoResult}
TruthyString(str) == str \notin {"absent", ""}
\* a || b
OrElse(a, b) == IF Truthy(a) THEN a ELSE b

P1_Body(parses, status, api, ollama, cls, msg) ==
    [parses |-> parses, status |-> status, api_result |-> api, ollama_result |-> ollama,
     predictedClass |-> cls, message |-> msg]

\* the bodies /predict_from_esp32 can answer with
P1_JsonBodies ==
    {P1_Body(TRUE, "success", a, o, c, "absent") :
        a \in {Undefined, NoResult, ApiResult}, o \in {Undefined, OllamaResult},
        c \in {"absent", "apple"}}
    \cup {P1_Body(TRUE, "success", Undefined, NoResult, "", "absent")}
    \cup {P1_Body(TRUE, "error", Undefined, Undefined, "absent", m) : m \in Messages}
    \cup {P1_Body(FALSE, "error", Undefined, Undefined, "absent", "absent")}

\* <Webcam> is rendered on the camera tab for the laptop source unless permission was denied
P1_WebcamMounted(mode, source, perm) == mode = "camera" /\ source = "laptop" /\ perm # "false"

\* the second effect: getUserMedia({video: true}) settles
P1_checkCameraPermission(granted) ==
    /\ rev = "P1"
    /\ hasPermission = "null"
    /\ hasPermission' = IF granted THEN "true" ELSE "false"
    /\ cameraError' = IF granted THEN cameraError ELSE MsgDenied
    /\ webcam' = IF granted THEN webcam ELSE "off"
    /\ ev' = Ev("checkCameraPermission", IF granted THEN "granted" ELSE "denied", "none")
    /\ UNCHANGED <<scanMode, isModelLoading, cameraSource, esp32Intervals, modelPc>>
    /\ UNCHANGED <<isScanning, scanResult, esp32ImageLoading, calls, isUploading,
                   uploadedImage, capturedImage, ollamaResult, backendResponse>>
    /\ UNCHANGED p1Fixed

P1_loadModel(loaded) == rev = "P1" /\ SD_loadModel(loaded)

\* <Webcam>: its own getUserMedia settles (no onUserMediaError handler)
P1_onUserMedia(granted) ==
    /\ rev = "P1"
    /\ webcam = "requesting"
    /\ webcam' = IF granted THEN "streaming" ELSE "error"
    /\ ev' = Task
    /\ UNCHANGED <<scanMode, hasPermission, isModelLoading, cameraSource, esp32Intervals,
                   modelPc>>
    /\ UNCHANGED p1Scan
    /\ UNCHANGED p1Fixed

\* <Tabs onValueChange>
P1_setScanMode(m) ==
    /\ rev = "P1"
    /\ m # scanMode
    /\ scanMode' = m
    /\ webcam' = IF P1_WebcamMounted(m, cameraSource, hasPermission) THEN "requesting" ELSE "off"
    /\ ev' = Task
    /\ UNCHANGED <<hasPermission, isModelLoading, cameraSource, esp32Intervals, modelPc>>
    /\ UNCHANGED p1Scan
    /\ UNCHANGED p1Fixed

\* <select onChange> and the [cameraSource] effect with the cleanup of the previous one
P1_setCameraSource(s) ==
    /\ rev = "P1"
    /\ scanMode = "camera"
    /\ s # cameraSource
    /\ cameraSource' = s
    /\ webcam' = IF P1_WebcamMounted(scanMode, s, hasPermission) THEN "requesting" ELSE "off"
    /\ esp32Intervals' = IF s = "esp32" THEN esp32Intervals + 1 ELSE esp32Intervals - 1
    /\ ev' = Ev("setCameraSource", s, "none")
    /\ UNCHANGED <<scanMode, hasPermission, isModelLoading, modelPc>>
    /\ UNCHANGED p1Scan
    /\ UNCHANGED p1Fixed

\* the Choose File button is replaced by a spinner while isUploading
P1_handleFileUpload(hasFile) ==
    /\ rev = "P1"
    /\ scanMode = "upload"
    /\ ~isUploading
    /\ IF hasFile
       THEN /\ Room
            /\ isUploading' = TRUE
            /\ calls' = Started(Call("reading", "upload", "data", 0, FALSE))
       ELSE UNCHANGED <<isUploading, calls>>
    /\ ev' = Ev("handleFileUpload", IF hasFile THEN "file" ELSE "nofile", "upload")
    /\ UNCHANGED <<isScanning, scanResult, cameraError, esp32ImageLoading, uploadedImage,
                   capturedImage, ollamaResult, backendResponse>>
    /\ UNCHANGED <<p1Page, p1Fixed>>

\* reader.onload: the image is kept for the Analyze button
P1_readerOnload(r) ==
    /\ rev = "P1"
    /\ r.phase = "reading"
    /\ uploadedImage' = "data"
    /\ calls' = Ended(r)
    /\ ev' = Task
    /\ UNCHANGED <<isScanning, scanResult, cameraError, esp32ImageLoading, isUploading,
                   capturedImage, ollamaResult, backendResponse>>
    /\ UNCHANGED <<p1Page, p1Fixed>>

\* reader.onerror
P1_readerError(r) ==
    /\ rev = "P1"
    /\ r.phase = "reading"
    /\ cameraError' = P0_MsgReadFile
    /\ isUploading' = FALSE
    /\ calls' = Ended(r)
    /\ ev' = Ev("readerError", "error", "upload")
    /\ UNCHANGED <<isScanning, scanResult, esp32ImageLoading, uploadedImage, capturedImage,
                   ollamaResult, backendResponse>>
    /\ UNCHANGED <<p1Page, p1Fixed>>

\* disabled={isScanning || (cameraSource === 'laptop' && hasPermission === false)}, negated
P1_CaptureEnabled == ~(isScanning \/ (cameraSource = "laptop" /\ hasPermission = "false"))

\* the camera tab's Capture button (inline onClick)
P1_capture ==
    /\ rev = "P1"
    /\ scanMode = "camera"
    /\ P1_CaptureEnabled
    /\ IF cameraSource = "laptop"
       THEN /\ IF webcam = "streaming"
               THEN capturedImage' = "data" /\ UNCHANGED cameraError
               ELSE cameraError' = P1_MsgCapture /\ UNCHANGED capturedImage
            /\ UNCHANGED calls
       ELSE /\ Room
            /\ calls' = Started(Call("grabbing", "camera", "esp32", 0, FALSE))
            /\ UNCHANGED <<capturedImage, cameraError>>
    /\ ev' = Ev("capture", cameraSource, "camera")
    /\ UNCHANGED <<isScanning, scanResult, esp32ImageLoading, isUploading, uploadedImage,
                   ollamaResult, backendResponse>>
    /\ UNCHANGED <<p1Page, p1Fixed>>

\* the ESP32 frame arrives and reader.onloadend stores it, or the fetch rejects (unhandled)
P1_frameFetched(r, arrived) ==
    /\ rev = "P1"
    /\ r.phase = "grabbing"
    /\ capturedImage' = IF arrived THEN "data" ELSE capturedImage
    /\ calls' = Ended(r)
    /\ ev' = Task
    /\ UNCHANGED <<isScanning, scanResult, cameraError, esp32ImageLoading, isUploading,
                   uploadedImage, ollamaResult, backendResponse>>
    /\ UNCHANGED <<p1Page, p1Fixed>>

\* the camera tab's Analyze button: handleAnalyze(capturedImage) up to the first await
P1_handleAnalyze ==
    /\ rev = "P1"
    /\ scanMode = "camera"
    /\ capturedImage # null
    /\ ~isScanning
    /\ Room
    /\ isScanning' = TRUE
    /\ cameraError' = null
    /\ scanResult' = NoResult
    /\ calls' = Started(Call("converting", "camera", "data", 0, FALSE))
    /\ ev' = Ev("handleAnalyze", "dispatched", "camera")
    /\ UNCHANGED <<esp32ImageLoading, isUploading, uploadedImage, capturedImage,
                   ollamaResult, backendResponse>>
    /\ UNCHANGED <<p1Page, p1Fixed>>

\* the upload tab's Analyze button (inline onClick) up to the first await
P1_uploadAnalyze ==
    /\ rev = "P1"
    /\ scanMode = "upload"
    /\ uploadedImage # null
    /\ ~isScanning
    /\ Room
    /\ isScanning' = TRUE
    /\ cameraError' = null
    /\ ollamaResult' = NoResult
    /\ backendResponse' = NoResult
    /\ calls' = Started(Call("converting", "upload", "data", 0, FALSE))
    /\ ev' = Ev("uploadAnalyze", "dispatched", "upload")
    /\ UNCHANGED <<scanResult, esp32ImageLoading, isUploading, uploadedImage, capturedImage>>
    /\ UNCHANGED <<p1Page, p1Fixed>>

\* await fetch(<data URI>) and .blob() settle; the POST is sent
P1_imageFetched(r) ==
    /\ rev = "P1"
    /\ r.phase = "converting"
    /\ calls' = Moved(r, [r EXCEPT !.phase = "posting"])
    /\ ev' = Ev("postSent", "sent", r.origin)
    /\ UNCHANGED <<isScanning, scanResult, cameraError, esp32ImageLoading, isUploading,
                   uploadedImage, capturedImage, ollamaResult, backendResponse>>
    /\ UNCHANGED <<p1Page, p1Fixed>>

\* the POST's response headers arrive: handleImageAnalysis reads the text of a non-2xx
\* response, the upload handler reads JSON whatever the status
P1_postResponds(r, ok) ==
    /\ rev = "P1"
    /\ r.phase = "posting"
    /\ calls' = Moved(r, [r EXCEPT !.phase = IF ok \/ r.origin = "upload" THEN "json"
                                             ELSE "text"])
    /\ ev' = Task
    /\ UNCHANGED <<isScanning, scanResult, cameraError, esp32ImageLoading, isUploading,
                   uploadedImage, capturedImage, ollamaResult, backendResponse>>
    /\ UNCHANGED <<p1Page, p1Fixed>>

\* handleImageAnalysis on a parsed body (lines 344-351): the value handed to
\* setScanResult, or Undefined where it throws
P1_analysisProbe(data) ==
    IF data.status = "success" /\ Truthy(OrElse(data.api_result, data.ollama_result))
    THEN OrElse(data.api_result, data.ollama_result)
    ELSE IF data.status = "success" /\ TruthyString(data.predictedClass)
    THEN data
    ELSE Undefined

\* the upload tab's Analyze handler on a parsed body (lines 700-710): the value handed to
\* setOllamaResult and setScanResult, or Undefined where it sets neither
P1_uploadProbe_OllamaFirst(data) ==
    IF data.status = "success" /\ Truthy(OrElse(data.ollama_result, data.api_result))
    THEN OrElse(data.ollama_result, data.api_result)
    ELSE IF data.status = "success" /\ TruthyString(data.predictedClass)
    THEN data
    ELSE Undefined

P1_uploadProbe(data) ==
    IF data.status = "success" /\ Truthy(OrElse(data.api_result, data.ollama_result))
    THEN OrElse(data.api_result, data.ollama_result)
    ELSE IF data.status = "success" /\ TruthyString(data.predictedClass)
    THEN data
    ELSE Undefined

\* an analysis ends in a catch block (msg) and the finally block
P1_analysisFailed(r, cause, msg) ==
    /\ cameraError' = msg
    /\ isScanning' = FALSE
    /\ calls' = Ended(r)
    /\ ev' = Ev("analysisEnded", cause, r.origin)
    /\ UNCHANGED <<scanResult, esp32ImageLoading, isUploading, uploadedImage, capturedImage,
                   ollamaResult, backendResponse>>
    /\ UNCHANGED <<p1Page, p1Fixed>>

\* the POST's fetch rejects (network error)
P1_postRejects(r) ==
    /\ rev = "P1"
    /\ r.phase = "posting"
    /\ P1_analysisFailed(r, "reject",
                         IF r.origin = "upload" THEN P1_MsgUploadAnalyze ELSE MsgFetchRejected)

\* handleImageAnalysis: await response.text() settles for a non-2xx response
P1_errorTextRead(r) ==
    /\ rev = "P1"
    /\ r.phase = "text"
    /\ P1_analysisFailed(r, "non2xx", P0_MsgServer)

\* handleImageAnalysis: await response.json() settles, then handleAnalyze's catch/finally
P1_analysisJsonRead(r, b) ==
    /\ rev = "P1"
    /\ r.phase = "json"
    /\ r.origin = "camera"
    /\ IF ~b.parses
       THEN P1_analysisFailed(r, "unparsable", MsgSyntax)
       ELSE /\ IF P1_analysisProbe(b) # Undefined
               THEN scanResult' = P1_analysisProbe(b) /\ UNCHANGED cameraError
               ELSE /\ cameraError' = IF b.message = "absent" THEN MsgAnalyze ELSE b.message
                    /\ UNCHANGED scanResult
            /\ isScanning' = FALSE
            /\ calls' = Ended(r)
            /\ ev' = EvResp("analysisEnded", "probed", r.origin, b)
            /\ UNCHANGED <<esp32ImageLoading, isUploading, uploadedImage, capturedImage,
                           ollamaResult, backendResponse>>
            /\ UNCHANGED <<p1Page, p1Fixed>>

\* the upload handler: await response.json() settles, then its catch/finally
P1_uploadJsonRead(r, b) ==
    /\ rev = "P1"
    /\ r.phase = "json"
    /\ r.origin = "upload"
    /\ IF ~b.parses
       THEN P1_analysisFailed(r, "unparsable", P1_MsgUploadAnalyze)
       ELSE /\ backendResponse' = b
            /\ IF P1_uploadProbe(b) # Undefined
               THEN ollamaResult' = P1_uploadProbe(b) /\ scanResult' = P1_uploadProbe(b)
               ELSE UNCHANGED <<ollamaResult, scanResult>>
            /\ isScanning' = FALSE
            /\ calls' = Ended(r)
            /\ ev' = EvResp("analysisEnded", "probed", r.origin, b)
            /\ UNCHANGED <<cameraError, esp32ImageLoading, isUploading, uploadedImage,
                           capturedImage>>
            /\ UNCHANGED <<p1Page, p1Fixed>>

\* if (isScanning) return;
P1_alreadyScanning == isScanning

\* the image handleCameraCapture keeps ("data"), or the message it throws
P1_captureSource ==
    IF cameraSource = "laptop"
    THEN IF ~P1_WebcamMounted(scanMode, cameraSource, hasPermission) THEN MsgWebcamNotReady
         ELSE IF webcam # "streaming" THEN MsgNoScreenshot
         ELSE "data"
    ELSE IF esp32ImageUrl = "" THEN P0_MsgNoEsp32 ELSE "data"

\* handleCameraCapture, which no element of part_001 is bound to: called by a caller
\* holding the handler; it has no await and runs to the end of its finally block
P1_handleCameraCapture ==
    /\ rev = "P1"
    /\ IF P1_alreadyScanning
       THEN /\ ev' = Ev("handleCameraCapture", "returned", "camera")
            /\ UNCHANGED <<isScanning, scanResult, cameraError, esp32ImageLoading,
                           capturedImage>>
       ELSE /\ scanResult' = NoResult
            /\ isScanning' = FALSE
            /\ esp32ImageLoading' = FALSE
            /\ IF P1_captureSource = "data"
               THEN /\ cameraError' = null
                    /\ capturedImage' = "data"
                    /\ ev' = Ev("handleCameraCapture", "captured", "camera")
               ELSE /\ cameraError' = P1_captureSource
                    /\ UNCHANGED capturedImage
                    /\ ev' = Ev("handleCameraCapture", "threw", "camera")
    /\ UNCHANGED <<calls, isUploading, uploadedImage, ollamaResult, backendResponse>>
    /\ UNCHANGED <<p1Page, p1Fixed>>

P1_Next ==
    \/ \E g \in BOOLEAN : P1_checkCameraPermission(g)
    \/ \E l \in BOOLEAN : P1_loadModel(l)
    \/ \E g \in BOOLEAN : P1_onUserMedia(g)
    \/ \E m \in {"camera", "upload", "iot"} : P1_setScanMode(m)
    \/ \E s \in {"laptop", "esp32"} : P1_setCameraSource(s)
    \/ \E f \in BOOLEAN : P1_handleFileUpload(f)
    \/ \E r \in InFlight : P1_readerOnload(r)
    \/ \E r \in InFlight : P1_readerError(r)
    \/ P1_capture
    \/ \E r \in InFlight, a \in BOOLEAN : P1_frameFetched(r, a)
    \/ P1_handleAnalyze
    \/ P1_uploadAnalyze
    \/ P1_handleCameraCapture
    \/ \E r \in InFlight : P1_imageFetched(r)
    \/ \E r \in InFlight, ok \in BOOLEAN : P1_postResponds(r, ok)
    \/ \E r \in InFlight : P1_postRejects(r)
    \/ \E r \in InFlight : P1_errorTextRead(r)
    \/ \E r \in InFlight, b \in P1_JsonBodies : P1_analysisJsonRead(r, b)
    \/ \E r \in InFlight, b \in P1_JsonBodies : P1_uploadJsonRead(r, b)

P1_Spec == P1_Init /\ [][P1_Next]_vars

\* either of the two revisions of src/unnamed is mounted
P01_Init == P0_Init \/ P1_Init
P01_Next == P0_Next \/ P1_Next
P01_Spec == P01_Init /\ [][P01_Next]_vars

----------------------------------------------------------------------------
(* Claims about src/unnamed/part_000 (lines 1-779) and src/unnamed/part_001 *)

\* C6: in part_000 and in part_001 a handleCameraCapture call that observes
\* isScanning = true returns at once: scanResult, cameraError and isScanning (and the
\* other cells the handler writes) keep their values and no request is sent, so a capture
\* started while another is in flight leaves the displayed result alone.
C6_ScanningGuardReturns ==
    [][ (ev'.op = "handleCameraCapture" /\ isScanning)
            => /\ ev'.cause = "returned"
               /\ scanResult' = scanResult
               /\ cameraError' = cameraError
               /\ isScanning' = isScanning
               /\ esp32ImageLoading' = esp32ImageLoading
               /\ capturedImage' = capturedImage
               /\ calls' = calls
      ]_vars

\* part_000: handleCameraCapture has just returned on its guard while the POST of an
\* earlier capture is out and the result of an upload is on display
C6_Witness ==
    /\ rev = "P0"
    /\ ev.op = "handleCameraCapture"
    /\ ev.cause = "returned"
    /\ isScanning
    /\ scanResult # NoResult
    /\ \E r \in InFlight : r.origin = "camera" /\ r.phase = "posting"

\* the first shape of a body in the order api_result, ollama_result, flat body with a
\* predictedClass; Undefined where the body has none of them
FirstShape(b) ==
    CASE Truthy(b.api_result) -> b.api_result
      [] ~Truthy(b.api_result) /\ Truthy(b.ollama_result) -> b.ollama_result
      [] ~Truthy(b.api_result) /\ ~Truthy(b.ollama_result) /\ TruthyString(b.predictedClass) -> b
      [] OTHER -> Undefined

\* C10: in part_001 handleImageAnalysis and the upload tab's Analyze handler probe a
\* status "success" body in the same order, api_result, else ollama_result, else the
\* flat body if it has a predictedClass: whichever handler read the body, scanResult
\* becomes the first shape the body has (and is left alone where it has none).
C10_ProbeOrder ==
    [][ (ev'.op = "analysisEnded" /\ ev'.cause = "probed" /\ ev'.resp.status = "success")
            => IF FirstShape(ev'.resp) # Undefined
               THEN scanResult' = FirstShape(ev'.resp)
               ELSE scanResult' = scanResult
      ]_vars

\* the upload handler has just read a body whose api_result is null and which has both
\* an ollama_result and a predictedClass: the ollama_result is on display
C10_Witness ==
    /\ ev.op = "analysisEnded"
    /\ ev.cause = "probed"
    /\ ev.origin = "upload"
    /\ ev.resp.status = "success"
    /\ ev.resp.api_result = NoResult
    /\ ev.resp.ollama_result = OllamaResult
    /\ ev.resp.predictedClass = "apple"
    /\ scanResult = OllamaResult

\* C20: in part_000 an analysis started by handleFileUpload that fails (the POST
\* rejects, answers non-2xx, or answers a body whose status is not "success") has its
\* failure stored in cameraError, and isUploading is false again.
C20_UploadFailureStored ==
    [][ (/\ rev = "P0"
         /\ ev'.op = "analysisEnded"
         /\ ev'.origin = "upload"
         /\ ev'.cause \in {"reject", "non2xx", "status"})
            => (cameraError' # null /\ ~isUploading')
      ]_vars

\* C11: in part_001 the upload tab's Analyze handler surfaces every failed analysis:
\* when the body the POST answered with (2xx or not) parses and its status is not
\* "success", cameraError is non-null when the handler finishes.
C11_UploadFailureSurfaced ==
    [][ (/\ ev'.op = "analysisEnded"
         /\ ev'.origin = "upload"
         /\ ev'.cause = "probed"
         /\ ev'.resp.status # "success")
            => cameraError' # null
      ]_vars

\* a FileReader that was started settles: onload or onerror runs
P1_readerSettles == \E r \in InFlight : P1_readerOnload(r) \/ P1_readerError(r)
P1_FairSpec == P1_Spec /\ WF_vars(P1_readerSettles)

\* C27: in part_001, after a file is selected isUploading eventually returns to false
\* once the read of the file has completed, by onload or by onerror, so the Choose File
\* control is rendered again in place of the 'Analyzing Image...' spinner.
C27_UploadingEnds ==
    (ev.op = "handleFileUpload" /\ ev.cause = "file") ~> ~isUploading

----------------------------------------------------------------------------
(* ScanLabel, first revision: src/src/pages/ScanLabel.tsx lines 1-1178.     *)
(* ocrText, processingStatus, emailStatus and videoConstraints are written   *)
(* but read by no handler or guard, and are left out.  apiResult is read by  *)
(* the result view alone; SL_Spec leaves it out, SLR_Spec below writes it.   *)

SL_Init ==
    /\ scanMode = "upload"
    /\ isScanning = FALSE
    /\ scanResult = NoResult
    /\ cameraError = null
    /\ hasPermission = "null"
    /\ isModelLoading = TRUE
    /\ cameraSource = "laptop"
    /\ esp32ImageUrl = ""
    /\ esp32ImageLoading = FALSE
    /\ esp32Intervals = 0
    /\ webcam = "off"
    /\ modelPc = "pending"
    /\ calls = EmptyBag
    /\ rev = "SL"
    /\ isUploading = FALSE
    /\ uploadedImage = null
    /\ capturedImage = null
    /\ ollamaResult = NoResult
    /\ backendResponse = NoResult
    /\ esp32Image = null
    /\ devicesPc = "pending"
    /\ ApartIdle
    /\ ev = Ev("mount", "none", "none")

\* cells ScanLabel does not have or never writes
slFixed == <<cameraSource, esp32ImageUrl, esp32ImageLoading, esp32Intervals, isUploading, rev,
            apart>>
\* the cells the effects and the tabs write (the Webcam element apart)
slPage == <<scanMode, hasPermission, isModelLoading, modelPc, devicesPc>>
\* the cells the capture, upload and analysis handlers write
slScan == <<isScanning, scanResult, cameraError, calls, uploadedImage, capturedImage,
            esp32Image, ollamaResult, backendResponse>>

SL_MsgNoCamera == "No real camera found. Please connect a webcam."
SL_MsgCapture == "Failed to capture image. Please try again with better lighting and focus."
SL_MsgAnalyze == "Failed to analyze nutrition label. Please try again with better lighting and focus."
SL_MsgEsp32 == "Failed to fetch ESP32 image."

\* the scanning card (tabs, Webcam, capture buttons) is rendered while scanResult is null
SL_TabsShown(res) == res = NoResult
SL_WebcamMounted(mode, res) == SL_TabsShown(res) /\ mode = "camera"
\* the Webcam element after a render with this tab and result
SL_webcamAfter(mode, res) ==
    IF ~SL_WebcamMounted(mode, res) THEN "off"
    ELSE IF webcam = "off" THEN "requesting" ELSE webcam

\* the first effect: getUserMedia({video: true}) settles
SL_checkCameraPermission(granted) ==
    /\ rev = "SL"
    /\ hasPermission = "null"
    /\ hasPermission' = IF granted THEN "true" ELSE "false"
    /\ cameraError' = IF granted THEN cameraError ELSE MsgDenied
    /\ ev' = Ev("checkCameraPermission", IF granted THEN "granted" ELSE "denied", "none")
    /\ UNCHANGED <<scanMode, isModelLoading, modelPc, devicesPc, webcam>>
    /\ UNCHANGED <<isScanning, scanResult, calls, uploadedImage, capturedImage, esp32Image,
                   ollamaResult, backendResponse>>
    /\ UNCHANGED slFixed

\* the second effect: tf.ready() and mobilenet.load() settle
SL_loadModel(loaded) == rev = "SL" /\ SD_loadModel(loaded)

\* the third effect: enumerateDevices() resolves with or without a real camera; new
\* videoConstraints restart a mounted Webcam
SL_enumerateDevices(found) ==
    /\ rev = "SL"
    /\ devicesPc = "pending"
    /\ devicesPc' = "done"
    /\ cameraError' = IF found THEN cameraError ELSE SL_MsgNoCamera
    /\ webcam' = IF found /\ webcam # "off" THEN "requesting" ELSE webcam
    /\ ev' = Ev("enumerateDevices", IF found THEN "found" ELSE "none", "none")
    /\ UNCHANGED <<scanMode, hasPermission, isModelLoading, modelPc>>
    /\ UNCHANGED <<isScanning, scanResult, calls, uploadedImage, capturedImage, esp32Image,
                   ollamaResult, backendResponse>>
    /\ UNCHANGED slFixed

\* <Webcam>: its getUserMedia settles; onUserMediaError stores an error
SL_onUserMedia(granted) ==
    /\ rev = "SL"
    /\ webcam = "requesting"
    /\ webcam' = IF granted THEN "streaming" ELSE "error"
    /\ cameraError' = IF granted THEN cameraError ELSE MsgUserMedia
    /\ ev' = Task
    /\ UNCHANGED slPage
    /\ UNCHANGED <<isScanning, scanResult, calls, uploadedImage, capturedImage, esp32Image,
                   ollamaResult, backendResponse>>
    /\ UNCHANGED slFixed

\* <Tabs onValueChange>
SL_setScanMode(m) ==
    /\ rev = "SL"
    /\ SL_TabsShown(scanResult)
    /\ m # scanMode
    /\ scanMode' = m
    /\ webcam' = SL_webcamAfter(m, scanResult)
    /\ ev' = Task
    /\ UNCHANGED <<hasPermission, isModelLoading, modelPc, devicesPc>>
    /\ UNCHANGED slScan
    /\ UNCHANGED slFixed

\* <input type=file onChange>: handleFileUpload starts a FileReader
SL_handleFileUpload(hasFile) ==
    /\ rev = "SL"
    /\ SL_TabsShown(scanResult)
    /\ scanMode = "upload"
    /\ IF hasFile
       THEN /\ Room
            /\ calls' = Started(Call("reading", "upload", "data", 0, FALSE))
       ELSE UNCHANGED calls
    /\ ev' = Ev("handleFileUpload", IF hasFile THEN "file" ELSE "nofile", "upload")
    /\ UNCHANGED <<isScanning, scanResult, cameraError, uploadedImage, capturedImage,
                   esp32Image, ollamaResult, backendResponse>>
    /\ UNCHANGED <<slPage, webcam, slFixed>>

\* reader.onload stores the image, or the read fails (no onerror handler)
SL_readerSettled(r, loaded) ==
    /\ rev = "SL"
    /\ r.phase = "reading"
    /\ uploadedImage' = IF loaded THEN "data" ELSE uploadedImage
    /\ calls' = Ended(r)
    /\ ev' = Task
    /\ UNCHANGED <<isScanning, scanResult, cameraError, capturedImage, esp32Image,
                   ollamaResult, backendResponse>>
    /\ UNCHANGED <<slPage, webcam, slFixed>>

\* the camera tab's Capture button: disabled={isScanning}, negated
SL_CaptureEnabled == SL_TabsShown(scanResult) /\ scanMode = "camera" /\ ~isScanning

\* handleCapture: it has no await and runs to the end of its finally block
SL_handleCapture ==
    /\ rev = "SL"
    /\ SL_CaptureEnabled
    /\ isScanning' = FALSE
    /\ IF webcam = "streaming"
       THEN cameraError' = null /\ capturedImage' = "data"
       ELSE cameraError' = SL_MsgCapture /\ UNCHANGED capturedImage
    /\ ev' = Ev("handleCapture", IF webcam = "streaming" THEN "captured" ELSE "threw",
                "camera")
    /\ UNCHANGED <<scanResult, calls, uploadedImage, esp32Image, ollamaResult,
                   backendResponse>>
    /\ UNCHANGED <<slPage, webcam, slFixed>>

\* JSON values of /extract_nutrition: calories arrives as a number, as text that is not
\* a number, or not at all
SL_Calories == {"150", "n/a", "absent"}
Nutrition(c) == [kind |-> "result", source |-> "api", calories |-> c]
OllamaNutrition == [kind |-> "result", source |-> "ollama", calories |-> "150"]

SL_Body(parses, status, source, nutrition, ollama) ==
    [parses |-> parses, status |-> status, source |-> source, nutrition |-> nutrition,
     ollama_result |-> ollama]

\* the bodies /extract_nutrition can answer with; status and source may be missing
SL_JsonBodies ==
    {SL_Body(TRUE, "success", "api", Nutrition(c), Undefined) : c \in SL_Calories}
    \cup {SL_Body(TRUE, "success", "ollama", Undefined, o) : o \in {Undefined, OllamaNutrition}}
    \cup {SL_Body(TRUE, "success", "absent", Nutrition("150"), Undefined),
          SL_Body(TRUE, "absent", "ollama", Undefined, OllamaNutrition)}
    \cup {SL_Body(TRUE, "error", "absent", Undefined, Undefined),
          SL_Body(FALSE, "error", "absent", Undefined, Undefined)}

\* Number(x) || 0 on the values of the model
SL_NumberOrZero(x) == IF x = "150" THEN 150 ELSE 0

\* parseNutritionFromText on a parsed body: the normalised nutrition, or Undefined where
\* it throws (another status, or a success body without nutrition: TypeError)
SL_parseNutrition(data) ==
    IF data.status = "success" /\ data.nutrition # Undefined
    THEN [data.nutrition EXCEPT !.calories = SL_NumberOrZero(data.nutrition.calories)]
    ELSE Undefined

\* the inline Analyze handlers on a parsed success body: the value handed to
\* setScanResult, or Undefined where they set none
SL_inlineProbe(data) ==
    IF data.source = "api" /\ Truthy(data.nutrition) THEN data.nutrition
    ELSE IF data.source = "ollama" /\ Truthy(data.ollama_result) THEN data.ollama_result
    ELSE Undefined

\* runOcrAndParse(image) up to its first await: the Analyze buttons of the camera tab
\* (capturedImage) and of the ESP32 tab (esp32Image)
SL_runOcrAndParse(tab) ==
    /\ rev = "SL"
    /\ SL_TabsShown(scanResult)
    /\ scanMode = tab
    /\ IF tab = "camera" THEN capturedImage # null ELSE esp32Image # null
    /\ ~isScanning
    /\ Room
    /\ isScanning' = TRUE
    /\ cameraError' = null
    /\ scanResult' = NoResult
    /\ backendResponse' = NoResult
    /\ calls' = Started(Call("ocr", tab, "parse", 0, FALSE))
    /\ ev' = Ev("runOcrAndParse", "dispatched", tab)
    /\ UNCHANGED <<uploadedImage, capturedImage, esp32Image, ollamaResult>>
    /\ UNCHANGED <<slPage, webcam, slFixed>>

\* the image an inline Analyze button works on, where the button is rendered
SL_inlineImage(where) ==
    CASE where = "upload" -> IF SL_TabsShown(scanResult) /\ scanMode = "upload"
                             THEN uploadedImage ELSE null
      [] where = "camera" -> IF ~SL_TabsShown(scanResult) THEN capturedImage ELSE null
      [] OTHER -> IF ~SL_TabsShown(scanResult) THEN esp32Image ELSE null

\* the inline Analyze handlers up to their first await: the upload tab's, and the two of
\* the result view (captured image, ESP32 image)
SL_inlineAnalyze(where) ==
    /\ rev = "SL"
    /\ SL_inlineImage(where) # null
    /\ ~isScanning
    /\ Room
    /\ isScanning' = TRUE
    /\ cameraError' = null
    /\ ollamaResult' = NoResult
    /\ backendResponse' = NoResult
    /\ calls' = Started(Call("ocr", where, "inline", 0, FALSE))
    /\ ev' = Ev("inlineAnalyze", "dispatched", where)
    /\ UNCHANGED <<scanResult, uploadedImage, capturedImage, esp32Image>>
    /\ UNCHANGED <<slPage, webcam, slFixed>>

\* the response an analysis has read: its HTTP status class, its body, and the handler
\* that read it ("parse": runOcrAndParse, "inline": an inline Analyze handler)
SL_Response(r, b) == [ok |-> r.phase = "json", body |-> b, by |-> r.src]

\* the catch and finally blocks of an analysis; response is what backendResponse holds
\* when the Error is thrown, resp the response read (or "none")
SL_analysisFailed(r, cause, response, resp) ==
    /\ cameraError' = SL_MsgAnalyze
    /\ isScanning' = FALSE
    /\ backendResponse' = response
    /\ calls' = Ended(r)
    /\ ev' = EvResp("analysisEnded", cause, r.origin, resp)
    /\ UNCHANGED <<scanResult, uploadedImage, capturedImage, esp32Image, ollamaResult>>
    /\ UNCHANGED <<slPage, webcam, slFixed>>

\* await Tesseract.recognize(...) settles; on success the text is posted
SL_ocrSettled(r, recognized) ==
    /\ rev = "SL"
    /\ r.phase = "ocr"
    /\ IF recognized
       THEN /\ calls' = Moved(r, [r EXCEPT !.phase = "posting"])
            /\ ev' = Ev("postSent", "sent", r.origin)
            /\ UNCHANGED <<isScanning, scanResult, cameraError, uploadedImage,
                           capturedImage, esp32Image, ollamaResult, backendResponse>>
            /\ UNCHANGED <<slPage, webcam, slFixed>>
       ELSE SL_analysisFailed(r, "ocr", backendResponse, "none")

\* the POST settles ("ok": 2xx, "non2xx", "reject"): a response of any status goes to
\* response.json()
SL_postSettled(r, outcome) ==
    /\ rev = "SL"
    /\ r.phase = "posting"
    /\ IF outcome # "reject"
       THEN /\ calls' = Moved(r, [r EXCEPT !.phase = IF outcome = "ok" THEN "json"
                                                     ELSE "json_non2xx"])
            /\ ev' = Task
            /\ UNCHANGED <<isScanning, scanResult, cameraError, uploadedImage,
                           capturedImage, esp32Image, ollamaResult, backendResponse>>
            /\ UNCHANGED <<slPage, webcam, slFixed>>
       ELSE SL_analysisFailed(r, "reject", backendResponse, "none")

\* the analysis stores res (Undefined: stores no result) and runs its finally block; a
\* result takes the scanning card, and the Webcam with it, off the page
SL_analysisDone(r, res, ollama, response, resp) ==
    /\ scanResult' = IF res = Undefined THEN scanResult ELSE res
    /\ ollamaResult' = ollama
    /\ backendResponse' = response
    /\ isScanning' = FALSE
    /\ webcam' = SL_webcamAfter(scanMode, scanResult')
    /\ calls' = Ended(r)
    /\ ev' = EvResp("analysisEnded", "probed", r.origin, resp)
    /\ UNCHANGED <<cameraError, uploadedImage, capturedImage, esp32Image>>
    /\ UNCHANGED <<slPage, slFixed>>

\* await response.json() settles
SL_jsonRead(r, b) ==
    /\ rev = "SL"
    /\ r.phase \in {"json", "json_non2xx"}
    /\ IF r.src = "parse"
       THEN IF b.parses /\ SL_parseNutrition(b) # Undefined
            THEN SL_analysisDone(r, SL_parseNutrition(b), ollamaResult, SL_parseNutrition(b),
                                 SL_Response(r, b))
            ELSE SL_analysisFailed(r, IF b.parses THEN "status" ELSE "unparsable",
                                   backendResponse, SL_Response(r, b))
       ELSE IF b.parses /\ b.status = "success"
            THEN SL_analysisDone(r, SL_inlineProbe(b),
                                 IF b.source = "ollama" /\ Truthy(b.ollama_result)
                                 THEN b.ollama_result ELSE ollamaResult, b,
                                 SL_Response(r, b))
            ELSE SL_analysisFailed(r, IF b.parses THEN "status" ELSE "unparsable",
                                   IF b.parses THEN b ELSE backendResponse,
                                   SL_Response(r, b))

\* the ESP32 tab's Capture button (inline onClick) up to its first await
SL_esp32Capture ==
    /\ rev = "SL"
    /\ SL_TabsShown(scanResult)
    /\ scanMode = "esp32"
    /\ ~isScanning
    /\ Room
    /\ calls' = Started(Call("grabbing", "esp32", "esp32", 0, FALSE))
    /\ ev' = Ev("esp32Capture", "dispatched", "esp32")
    /\ UNCHANGED <<isScanning, scanResult, cameraError, uploadedImage, capturedImage,
                   esp32Image, ollamaResult, backendResponse>>
    /\ UNCHANGED <<slPage, webcam, slFixed>>

\* the frame request settles: a 2xx frame is stored by reader.onloadend, a non-2xx
\* response stores an error, a rejected fetch has no handler
SL_esp32Fetched(r, outcome) ==
    /\ rev = "SL"
    /\ r.phase = "grabbing"
    /\ esp32Image' = IF outcome = "ok" THEN "data" ELSE esp32Image
    /\ cameraError' = IF outcome = "notok" THEN SL_MsgEsp32 ELSE cameraError
    /\ calls' = Ended(r)
    /\ ev' = Ev("esp32Fetched", outcome, "esp32")
    /\ UNCHANGED <<isScanning, scanResult, uploadedImage, capturedImage, ollamaResult,
                   backendResponse>>
    /\ UNCHANGED <<slPage, webcam, slFixed>>

\* the Scan Another button of the result view
SL_resetScan ==
    /\ rev = "SL"
    /\ ~SL_TabsShown(scanResult)
    /\ scanResult' = NoResult
    /\ uploadedImage' = null
    /\ capturedImage' = null
    /\ webcam' = SL_webcamAfter(scanMode, NoResult)
    /\ ev' = Ev("resetScan", "none", "none")
    /\ UNCHANGED <<isScanning, cameraError, calls, esp32Image, ollamaResult, backendResponse>>
    /\ UNCHANGED <<slPage, slFixed>>

SL_Next ==
    \/ \E g \in BOOLEAN : SL_checkCameraPermission(g)
    \/ \E l \in BOOLEAN : SL_loadModel(l)
    \/ \E f \in BOOLEAN : SL_enumerateDevices(f)
    \/ \E g \in BOOLEAN : SL_onUserMedia(g)
    \/ \E m \in {"upload", "camera", "esp32"} : SL_setScanMode(m)
    \/ \E f \in BOOLEAN : SL_handleFileUpload(f)
    \/ \E r \in InFlight, l \in BOOLEAN : SL_readerSettled(r, l)
    \/ SL_handleCapture
    \/ \E t \in {"camera", "esp32"} : SL_runOcrAndParse(t)
    \/ \E w \in {"upload", "camera", "esp32"} : SL_inlineAnalyze(w)
    \/ \E r \in InFlight, ok \in BOOLEAN : SL_ocrSettled(r, ok)
    \/ \E r \in InFlight, o \in {"ok", "non2xx", "reject"} : SL_postSettled(r, o)
    \/ \E r \in InFlight, b \in SL_JsonBodies : SL_jsonRead(r, b)
    \/ SL_esp32Capture
    \/ \E r \in InFlight, o \in {"ok", "notok", "reject"} : SL_esp32Fetched(r, o)
    \/ SL_resetScan

SL_Spec == SL_Init /\ [][SL_Next]_vars

----------------------------------------------------------------------------
(* Claims about src/src/pages/ScanLabel.tsx, first revision *)

\* C9: in ScanLabel, once camera permission has been denied, the camera tab's Capture
\* button is disabled and cameraError holds the permission-denied message in every
\* later state.
C9_DenialDisablesCapture ==
    hasPermission = "false" => (~SL_CaptureEnabled /\ cameraError = MsgDenied)

\* C21: in ScanLabel, after resetScan no acquired image of the previous scan is still
\* held: scanResult, uploadedImage, capturedImage and esp32Image are all null, whichever
\* tab (upload, camera, ESP32) produced the previous scan.
C21_ResetClearsImages ==
    [][ ev'.op = "resetScan"
            => /\ scanResult' = NoResult
               /\ uploadedImage' = null
               /\ capturedImage' = null
               /\ esp32Image' = null
      ]_vars

----------------------------------------------------------------------------
(* ScanLabel, first revision, with the analysis that produced each result.  The     *)
(* handlers are those of SL_Spec; every body read from /extract_nutrition carries   *)
(* the number of the analysis that read it, and the inline Analyze handlers write   *)
(* apiResult.  The three mount effects (camera permission, model, devices) write    *)
(* no result and no image; they are left to SL_Spec.                                *)

\* analysis numbers; a number is reused once no cell holds a result that carries it
MaxHeld == 3

\* the cells of slFixed apart from apiResult
slrFixed == <<cameraSource, esp32ImageUrl, esp32ImageLoading, esp32Intervals, isUploading,
             rev, iotData, iotPc, iotInterval, iotCalls, cameraFrame, displayedFrame, arg,
             out, iotShown, forms>>

\* the result cells the result view renders
SLR_Held == {scanResult, ollamaResult, apiResult} \ {NoResult}
\* the least analysis number no rendered result carries
SLR_Fresh ==
    CHOOSE n \in 1..MaxHeld :
        /\ \A v \in SLR_Held : v.analysis # n
        /\ \A m \in 1..(n - 1) : \E v \in SLR_Held : v.analysis = m

\* a JSON value of the body read by analysis n
SLR_Stamped(v, n) ==
    IF v = Undefined THEN Undefined
    ELSE [kind |-> v.kind, source |-> v.source, calories |-> v.calories, analysis |-> n]
\* the body b as analysis n reads it
SLR_Body(b, n) ==
    SL_Body(b.parses, b.status, b.source, SLR_Stamped(b.nutrition, n),
            SLR_Stamped(b.ollama_result, n))

\* the inline Analyze handlers up to their first await (428-435, 661-667, 732-738)
SLR_inlineAnalyze(where) ==
    /\ rev = "SL"
    /\ SL_inlineImage(where) # null
    /\ ~isScanning
    /\ Room
    /\ isScanning' = TRUE
    /\ cameraError' = null
    /\ apiResult' = NoResult
    /\ ollamaResult' = NoResult
    /\ backendResponse' = NoResult
    /\ calls' = Started(Call("ocr", where, "inline", 0, FALSE))
    /\ ev' = Ev("inlineAnalyze", "dispatched", where)
    /\ UNCHANGED <<scanResult, uploadedImage, capturedImage, esp32Image>>
    /\ UNCHANGED <<slPage, webcam, slrFixed>>

\* an inline Analyze handler after a body with status 'success' (446-459) and its
\* finally block
SLR_inlineDone(r, b) ==
    /\ backendResponse' = b
    /\ IF b.source = "api" /\ Truthy(b.nutrition)
       THEN /\ apiResult' = b.nutrition
            /\ scanResult' = b.nutrition
            /\ UNCHANGED ollamaResult
       ELSE IF b.source = "ollama" /\ Truthy(b.ollama_result)
       THEN /\ ollamaResult' = b.ollama_result
            /\ scanResult' = b.ollama_result
            /\ UNCHANGED apiResult
       ELSE UNCHANGED <<apiResult, ollamaResult, scanResult>>
    /\ isScanning' = FALSE
    /\ webcam' = SL_webcamAfter(scanMode, scanResult')
    /\ calls' = Ended(r)
    /\ ev' = EvResp("analysisEnded", "probed", r.origin, SL_Response(r, b))
    /\ UNCHANGED <<cameraError, uploadedImage, capturedImage, esp32Image>>
    /\ UNCHANGED <<slPage, slrFixed>>

\* await response.json() settles in analysis r, which reads the body b
SLR_jsonRead(r, b) ==
    /\ rev = "SL"
    /\ r.phase \in {"json", "json_non2xx"}
    /\ IF r.src = "inline" /\ b.parses /\ b.status = "success"
       THEN SLR_inlineDone(r, SLR_Body(b, SLR_Fresh))
       ELSE SL_jsonRead(r, SLR_Body(b, SLR_Fresh))

\* the bodies of SL_JsonBodies that differ in what the handlers store
SLR_JsonBodies ==
    {SL_Body(TRUE, "success", "api", Nutrition("150"), Undefined),
     SL_Body(TRUE, "success", "ollama", Undefined, OllamaNutrition),
     SL_Body(TRUE, "success", "ollama", Undefined, Undefined),
     SL_Body(TRUE, "error", "absent", Undefined, Undefined)}

SLR_Init == SL_Init

SLR_Next ==
    \/ \E g \in BOOLEAN : SL_onUserMedia(g)
    \/ \E m \in {"upload", "camera", "esp32"} : SL_setScanMode(m)
    \/ \E f \in BOOLEAN : SL_handleFileUpload(f)
    \/ \E r \in InFlight, l \in BOOLEAN : SL_readerSettled(r, l)
    \/ SL_handleCapture
    \/ \E t \in {"camera", "esp32"} : SL_runOcrAndParse(t)
    \/ \E w \in {"upload", "camera", "esp32"} : SLR_inlineAnalyze(w)
    \/ \E r \in InFlight, ok \in BOOLEAN : SL_ocrSettled(r, ok)
    \/ \E r \in InFlight, o \in {"ok", "non2xx", "reject"} : SL_postSettled(r, o)
    \/ \E r \in InFlight, b \in SLR_JsonBodies : SLR_jsonRead(r, b)
    \/ SL_esp32Capture
    \/ \E r \in InFlight, o \in {"ok", "notok", "reject"} : SL_esp32Fetched(r, o)
    \/ SL_resetScan

SLR_Spec == SLR_Init /\ [][SLR_Next]_vars

\* C22: in ScanLabel, whenever scanResult is non-null, the ollamaResult and the
\* apiResult of the result view are each null or produced by the same analysis as
\* scanResult.
C22_ResultsOfOneAnalysis ==
    scanResult # NoResult
        => /\ ollamaResult = NoResult \/ ollamaResult.analysis = scanResult.analysis
           /\ apiResult = NoResult \/ apiResult.analysis = scanResult.analysis

----------------------------------------------------------------------------
(* Functions of ScanLabel.tsx applied on their own.  No page is mounted: the cells  *)
(* of the pages keep the values of `Unmounted`, arg holds the argument and out the  *)
(* value returned.                                                                  *)

\* the cells of the pages
page == <<scanMode, isScanning, scanResult, cameraError, hasPermission, isModelLoading,
          cameraSource, esp32ImageUrl, esp32ImageLoading, esp32Intervals, webcam, modelPc,
          calls, rev, isUploading, uploadedImage, capturedImage, ollamaResult,
          backendResponse, esp32Image, devicesPc>>

\* the cells of a page as its useState calls initialise them, for revision r
Unmounted(r) ==
    /\ scanMode = "camera"
    /\ isScanning = FALSE
    /\ scanResult = NoResult
    /\ cameraError = null
    /\ hasPermission = "null"
    /\ isModelLoading = TRUE
    /\ cameraSource = "laptop"
    /\ esp32ImageUrl = ""
    /\ esp32ImageLoading = FALSE
    /\ esp32Intervals = 0
    /\ webcam = "off"
    /\ modelPc = "pending"
    /\ calls = EmptyBag
    /\ rev = r
    /\ isUploading = FALSE
    /\ uploadedImage = null
    /\ capturedImage = null
    /\ ollamaResult = NoResult
    /\ backendResponse = NoResult
    /\ esp32Image = null
    /\ devicesPc = "pending"

\* longest string of a JSON field
MaxStrLen == 3
\* numbers are kept as integer multiples of 1/Unit, which every decimal literal of at
\* most MaxStrLen characters is
Unit == 10 ^ MaxStrLen

\* the characters of a string field: digits, the decimal point, the sign, white space
\* and a letter
Digits == {"0", "1", "5"}
Chars == Digits \cup {".", "-", " ", "g"}
Str(cs) == [kind |-> "string", chars |-> cs]
Strings == UNION {[1..n -> Chars] : n \in 0..MaxStrLen}
NaN == [kind |-> "NaN"]

DigitValue(c) == CASE c = "0" -> 0 [] c = "1" -> 1 [] c = "5" -> 5

RECURSIVE IntValue(_)
\* the value of a run of digits (0 for the empty run)
IntValue(cs) ==
    IF cs = <<>> THEN 0
    ELSE 10 * IntValue(SubSeq(cs, 1, Len(cs) - 1)) + DigitValue(cs[Len(cs)])

IsDigits(cs) == \A i \in DOMAIN cs : cs[i] \in Digits

RECURSIVE Trim(_)
\* StringToNumber strips leading and trailing white space
Trim(cs) ==
    IF cs = <<>> THEN cs
    ELSE IF Head(cs) = " " THEN Trim(Tail(cs))
    ELSE IF cs[Len(cs)] = " " THEN Trim(SubSeq(cs, 1, Len(cs) - 1))
    ELSE cs

\* StrUnsignedDecimalLiteral: digits, digits "." digits*, or "." digits+
StrDecimal(cs) ==
    LET dots == {i \in DOMAIN cs : cs[i] = "."} IN
    IF dots = {}
    THEN IF cs # <<>> /\ IsDigits(cs) THEN Num(IntValue(cs) * Unit) ELSE NaN
    ELSE LET i == CHOOSE d \in dots : TRUE
             int == SubSeq(cs, 1, i - 1)
             frac == SubSeq(cs, i + 1, Len(cs))
         IN  IF Cardinality(dots) = 1 /\ IsDigits(int) /\ IsDigits(frac) /\ Len(cs) > 1
             THEN Num(IntValue(int) * Unit + IntValue(frac) * (Unit \div (10 ^ Len(frac))))
             ELSE NaN

\* Number(<string>): StringToNumber
StringToNumber(cs) ==
    LET t == Trim(cs) IN
    IF t = <<>> THEN Num(0)
    ELSE IF Head(t) = "-"
    THEN IF StrDecimal(Tail(t)) = NaN THEN NaN ELSE Num(0 - StrDecimal(Tail(t)).v)
    ELSE StrDecimal(t)

\* Number(x) on a JSON value or a missing field
JsNumber(x) ==
    CASE x.kind = "number" -> x
      [] x.kind = "string" -> StringToNumber(x.chars)
      [] x.kind = "null" -> Num(0)
      [] OTHER -> NaN

\* Number(x) || 0
PN_NumberOrZero_NoFallback(x) == JsNumber(x)
PN_NumberOrZero(x) == IF JsNumber(x) \in {NaN, Num(0)} THEN Num(0) ELSE JsNumber(x)

\* the nutrients parseNutritionFromText normalises
PN_Nutrients == {"calories", "protein", "carbs", "fat", "fiber", "sugar", "sodium"}
\* fields of data.nutrition it does not name
PN_Rest == {"health_score", "serving_size"}

\* the values a field of data.nutrition arrives with: a number, a string, null, or not
\* at all
PN_Values ==
    {Num(n * (Unit \div 10)) : n \in {-25, 0, 15, 120}} \cup {Str(cs) : cs \in Strings}
    \cup {NoResult, Undefined}

PN_Label == [f \in PN_Nutrients \cup PN_Rest |-> IF f = "serving_size" THEN Str(<<"1", "g">>)
                                                 ELSE Num(12 * Unit)]

\* the parsed bodies of /extract_nutrition: a label with one field set to any value, or
\* an error body
PN_Bodies ==
    {[kind |-> "body", status |-> "success", nutrition |-> [PN_Label EXCEPT ![f] = v]] :
        f \in PN_Nutrients \cup PN_Rest, v \in PN_Values}
    \cup {[kind |-> "body", status |-> "error", nutrition |-> Undefined]}

\* parseNutritionFromText, the .then(data => ...) at lines 101-117: the record returned,
\* or Undefined where it throws
PN_normalise(data) ==
    IF data.status = "success"
    THEN [f \in DOMAIN data.nutrition |->
            IF f \in PN_Nutrients THEN PN_NumberOrZero(data.nutrition[f])
            ELSE data.nutrition[f]]
    ELSE Undefined

PN_Init ==
    /\ Unmounted("SL")
    /\ iotData = mockIoTData
    /\ iotPc = "rendered"
    /\ iotInterval = 0
    /\ iotCalls = EmptyBag
    /\ cameraFrame = 0
    /\ displayedFrame = 0
    /\ arg \in PN_Bodies
    /\ out = Nothing
    /\ LateIdle
    /\ ev = Ev("mount", "none", "none")

\* the body reaches the second .then of parseNutritionFromText
PN_parse ==
    /\ rev = "SL"
    /\ arg.kind = "body"
    /\ out = Nothing
    /\ out' = PN_normalise(arg)
    /\ ev' = Ev("parseNutritionFromText",
                IF PN_normalise(arg) = Undefined THEN "threw" ELSE "returned", "none")
    /\ UNCHANGED <<page, iotData, iotPc, iotInterval, iotCalls, cameraFrame,
                   displayedFrame, arg, late>>

PN_Next == PN_parse
PN_Spec == PN_Init /\ [][PN_Next]_vars

\* the number the field value v stands for: itself, the value of a numeric string, and
\* 0 where it is missing, null, empty or not numeric
PN_Stands(v) ==
    IF v.kind = "number" THEN v
    ELSE IF v.kind = "string" /\ StringToNumber(v.chars) # NaN THEN StringToNumber(v.chars)
    ELSE Num(0)

\* C14: for a status "success" body parseNutritionFromText returns a record in which
\* each of calories, protein, carbs, fat, fiber, sugar and sodium is a number (never
\* NaN, never a string): the number the field stands for, 0 where it is missing, null,
\* empty or not numeric; every other field of nutrition is passed through unchanged.
C14_NutrientsAreNumbers ==
    (ev.op = "parseNutritionFromText" /\ arg.status = "success")
        => /\ \A f \in PN_Nutrients :
                /\ out[f].kind = "number"
                /\ out[f] = PN_Stands(arg.nutrition[f])
                /\ arg.nutrition[f].kind \in {"undefined", "null"} => out[f] = Num(0)
           /\ \A f \in PN_Rest : out[f] = arg.nutrition[f]

\* protein arrived as the string "1.5" and was returned as the number 1.5
C14_Witness ==
    /\ ev.op = "parseNutritionFromText"
    /\ arg.status = "success"
    /\ arg.nutrition.protein = Str(<<"1", ".", "5">>)
    /\ out.protein = Num(15 * (Unit \div 10))

----------------------------------------------------------------------------
(* The Considerations section of ScanLabel's result view (both revisions of the     *)
(* file render it with the same expression): arg is the scanResult on display, out  *)
(* what the section renders.                                                        *)

\* most warnings of a result
MaxWarnings == 3
WarningTexts == {"High in sodium", "High sugar", "Preservatives"}
Arr(items) == [kind |-> "array", items |-> items]

\* the values scanResult.warnings arrives with: missing, null, an array of texts, or (as
\* the Ollama panel at lines 827-831 provides for) one string
CV_Warnings ==
    {Undefined, NoResult}
    \cup {Arr(ws) : ws \in UNION {[1..n -> WarningTexts] : n \in 0..MaxWarnings}}
    \cup {Str(cs) : cs \in UNION {[1..n -> {"g", " "}] : n \in 0..MaxWarnings}}

\* ToBoolean(w) and w.length of such a value
CV_Truthy(w) == w.kind = "array" \/ (w.kind = "string" /\ w.chars # <<>>)
CV_Length(w) == IF w.kind = "array" THEN Len(w.items) ELSE Len(w.chars)

\* {scanResult.warnings && scanResult.warnings.length > 0 ? scanResult.warnings.map(...)
\*  : <p>No significant health concerns detected</p>}; a string has no map method
CV_considerations(result) ==
    IF CV_Truthy(result.warnings) /\ CV_Length(result.warnings) > 0
    THEN IF result.warnings.kind = "array"
         THEN [kind |-> "badges", badges |-> result.warnings.items]
         ELSE [kind |-> "TypeError"]
    ELSE [kind |-> "message"]

CV_Init ==
    /\ \E r \in {"SL", "SL2"} : Unmounted(r)
    /\ iotData = mockIoTData
    /\ iotPc = "rendered"
    /\ iotInterval = 0
    /\ iotCalls = EmptyBag
    /\ cameraFrame = 0
    /\ displayedFrame = 0
    /\ arg \in {[kind |-> "result", health_score |-> h, warnings |-> w] :
                    h \in {Undefined, Num(7 * Unit)}, w \in CV_Warnings}
    /\ out = Nothing
    /\ LateIdle
    /\ ev = Ev("mount", "none", "none")

\* the result view renders its Considerations section
CV_render ==
    /\ rev \in {"SL", "SL2"}
    /\ arg.kind = "result"
    /\ out = Nothing
    /\ out' = CV_considerations(arg)
    /\ ev' = Ev("render", "none", "none")
    /\ UNCHANGED <<page, iotData, iotPc, iotInterval, iotCalls, cameraFrame,
                   displayedFrame, arg, late>>

CV_Next == CV_render
CV_Spec == CV_Init /\ [][CV_Next]_vars

\* warnings is missing (or null), or has no element
CV_MissingOrEmpty(w) ==
    \/ w \in {Undefined, NoResult}
    \/ w.kind = "array" /\ w.items = <<>>
    \/ w.kind = "string" /\ w.chars = <<>>

\* C15: for every scanResult the Considerations section shows the "No significant
\* health concerns detected" message exactly when warnings is missing or empty, and
\* otherwise one badge per warning, in order.
C15_ConsiderationsRendered ==
    ev.op = "render"
        => IF CV_MissingOrEmpty(arg.warnings)
           THEN out.kind = "message"
           ELSE /\ out.kind = "badges"
                /\ out.badges = arg.warnings.items

----------------------------------------------------------------------------
(* The score tiers: getHealthScoreColor and getHealthScoreLabel of ScanLabel.tsx,    *)
(* getScoreColor of Dashboard.tsx.  arg is the score, a multiple of 1/Unit.          *)

\* the largest score (the backend scores in [0, 10])
MaxScore == 10
Scores == {Num(v) : v \in 0..(MaxScore * Unit)}

getHealthScoreColor_Strict(score) ==
    IF score.v > 8 * Unit THEN "emerald"
    ELSE IF score.v > 6 * Unit THEN "amber"
    ELSE "red"

getHealthScoreColor(score) ==
    IF score.v >= 8 * Unit THEN "emerald"
    ELSE IF score.v >= 6 * Unit THEN "amber"
    ELSE "red"

getHealthScoreLabel(score) ==
    IF score.v >= 8 * Unit THEN "Excellent"
    ELSE IF score.v >= 6 * Unit THEN "Good"
    ELSE "Poor"

getScoreColor(score) ==
    IF score.v >= 8 * Unit THEN "emerald"
    ELSE IF score.v >= 6 * Unit THEN "amber"
    ELSE "red"

HS_Init ==
    /\ Unmounted("SL")
    /\ iotData = mockIoTData
    /\ iotPc = "rendered"
    /\ iotInterval = 0
    /\ iotCalls = EmptyBag
    /\ cameraFrame = 0
    /\ displayedFrame = 0
    /\ arg \in Scores
    /\ out = Nothing
    /\ LateIdle
    /\ ev = Ev("mount", "none", "none")

\* a call of fn(arg) that returns value
HS_returns(fn, value) ==
    /\ arg.kind = "number"
    /\ out = Nothing
    /\ out' = [fn |-> fn, value |-> value]
    /\ ev' = Ev(fn, "returned", "none")
    /\ UNCHANGED <<page, iotData, iotPc, iotInterval, iotCalls, cameraFrame,
                   displayedFrame, arg, late>>

HS_getHealthScoreColor == HS_returns("getHealthScoreColor", getHealthScoreColor(arg))
HS_getHealthScoreLabel == HS_returns("getHealthScoreLabel", getHealthScoreLabel(arg))
HS_getScoreColor == HS_returns("getScoreColor", getScoreColor(arg))

HS_Next ==
    \/ HS_getHealthScoreColor
    \/ HS_getHealthScoreLabel
    \/ HS_getScoreColor
HS_Spec == HS_Init /\ [][HS_Next]_vars

\* the tier the claim gives a score: 3 from 8 up, 2 from 6 up to 8, 1 below 6
HS_Tier(score) ==
    CASE score.v >= 8 * Unit -> 3
      [] score.v >= 6 * Unit /\ score.v < 8 * Unit -> 2
      [] score.v < 6 * Unit -> 1
HS_TierOf(value) ==
    CASE value \in {"emerald", "Excellent"} -> 3
      [] value \in {"amber", "Good"} -> 2
      [] value \in {"red", "Poor"} -> 1

\* C16: getHealthScoreColor and getScoreColor return emerald for a score s >= 8, amber
\* for 6 <= s < 8 and red for s < 6; getHealthScoreLabel returns Excellent, Good and
\* Poor on the same three ranges, so the colour and the label of a score agree.
C16_ScoreTiers ==
    ev.op \in {"getHealthScoreColor", "getHealthScoreLabel", "getScoreColor"}
        => /\ HS_TierOf(out.value) = HS_Tier(arg)
           /\ out.fn = "getHealthScoreLabel" <=> out.value \in {"Excellent", "Good", "Poor"}
           /\ HS_TierOf(getHealthScoreColor(arg)) = HS_TierOf(getHealthScoreLabel(arg))

\* getHealthScoreColor was applied to the score just below 8 (7.999) and returned amber
C16_Witness ==
    /\ ev.op = "getHealthScoreColor"
    /\ arg = Num(8 * Unit - 1)
    /\ out.value = "amber"

----------------------------------------------------------------------------
(* The sensor polling of src/unnamed/part_000 (lines 129-183) and part_001 (lines    *)
(* 136-190), the same code in both: fetchIoTData and the effect that runs it every   *)
(* 2 seconds.  It shares no cell with the rest of the page, which is held at its     *)
(* initial state but for checkCameraPermission, the writer of cameraError that runs  *)
(* at mount.  A text is a sequence of fragments, 'Error: ' + message two of them.    *)

\* GET /get_iot_data requests that may be in flight at once
MaxIotCalls == 2

\* request numbers, in the order the requests were started; the numbers restart when
\* no request is in flight
MaxRequests == 4

IotRoom == BagCardinality(iotCalls) < MaxIotCalls
\* a request: where it stands, and its number
IotCall(phase, seq) == [phase |-> phase, seq |-> seq]
IotInFlight == BagToSet(iotCalls)
\* the number of the next request
IotNextSeq ==
    IF iotCalls = EmptyBag THEN 1
    ELSE LET live == {r.seq : r \in IotInFlight} \cup {iotShown}
         IN  1 + (CHOOSE m \in live : \A x \in live : x <= m)

\* typeof of a field of the body
TypeOf(v) == IF v.kind \in {"number", "boolean", "string", "undefined"} THEN v.kind
             ELSE "object"

IotReading(t, h, c, l) == [temperature |-> t, humidity |-> h, connected |-> c, lastUpdate |-> l]

\* the parsed bodies of GET /get_iot_data: readings; objects one of whose fields has
\* another type (temperature null, humidity a string, connected a number, lastUpdate
\* missing); and the JSON value null
IotBodies ==
    {IotReading(Num(t * (Unit \div 10)), Num(65 * Unit), Bool(c), Text(<<l>>)) :
        t \in {45, 225}, c \in BOOLEAN, l \in {"12:00:00", "12:00:02"}}
    \cup {IotReading(NoResult, Num(65 * Unit), Bool(TRUE), Text(<<"12:00:00">>)),
          IotReading(Num(45 * (Unit \div 10)), Text(<<"65">>), Bool(TRUE),
                     Text(<<"12:00:00">>)),
          IotReading(Num(45 * (Unit \div 10)), Num(65 * Unit), Num(Unit),
                     Text(<<"12:00:00">>)),
          IotReading(Num(45 * (Unit \div 10)), Num(65 * Unit), Bool(TRUE), Undefined),
          NoResult}

\* the messages of the Errors fetchIoTData catches
IotMsgHttp == "HTTP error! status: 500"
IotMsgSyntax == "Unexpected token < in JSON at position 0"
\* data.temperature where data is null
IotMsgTypeError == "Cannot read properties of null (reading 'temperature')"

\* the catch block's setIoTData argument
IotErrorData_Stale(message) == iotData
IotErrorData(message) ==
    IotReading(Num(0), Num(0), Bool(FALSE), Text(<<"Error: ", message>>))

\* a validation that tests the temperature alone
IotValid_TemperatureOnly(data) ==
    TypeOf(data.temperature) = "number"
\* the validation of fetchIoTData (typeof checks on the four fields)
IotValid(data) ==
    /\ TypeOf(data.temperature) = "number"
    /\ TypeOf(data.humidity) = "number"
    /\ TypeOf(data.connected) = "boolean"
    /\ TypeOf(data.lastUpdate) = "string"

\* a setIoTData that keeps the response of a request started later than request k
IotSet_NewestStarted(v, k) ==
    /\ iotData' = IF iotPc = "unmounted" \/ iotShown > k THEN iotData ELSE v
    /\ iotShown' = IF iotPc = "unmounted" \/ iotShown > k THEN iotShown ELSE k
\* setIoTData(v) in request k: React drops a state update of an unmounted component
IotSet(v, k) ==
    /\ iotData' = IF iotPc = "unmounted" THEN iotData ELSE v
    /\ iotShown' = IF iotPc = "unmounted" THEN iotShown ELSE k

IOT_Init == P0_Init \/ P1_Init

\* the cells of the page the polling does not write, and the cells of `apart` it has not
iotRest == <<page, cameraFrame, displayedFrame, arg, out, apiResult, forms>>

\* fetchIoTData up to its await fetch(...)
IOT_fetchIoTData(cause) ==
    /\ IotRoom
    /\ IotNextSeq <= MaxRequests
    /\ iotCalls' = iotCalls (+) SetToBag({IotCall("fetching", IotNextSeq)})
    /\ iotShown' = IF iotCalls = EmptyBag THEN 0 ELSE iotShown
    /\ ev' = Ev("fetchIoTData", cause, "none")
    /\ UNCHANGED iotData

\* useEffect(..., []): fetchIoTData() at once, then setInterval(fetchIoTData, 2000)
IOT_pollingEffect ==
    /\ iotPc = "rendered"
    /\ IOT_fetchIoTData("effect")
    /\ iotInterval' = iotInterval + 1
    /\ iotPc' = "polling"
    /\ UNCHANGED iotRest

\* 2 seconds elapse: every live interval timer calls fetchIoTData (there is at most one)
IOT_tick ==
    /\ iotPc # "rendered"
    /\ IF iotInterval > 0
       THEN IOT_fetchIoTData("tick")
       ELSE ev' = Ev("tick", "noTimer", "none") /\ UNCHANGED <<iotData, iotCalls, iotShown>>
    /\ UNCHANGED <<iotPc, iotInterval, iotRest>>

\* clearInterval(interval)
IOT_clearInterval_Kept(n) == n
IOT_clearInterval(n) == n - 1

\* the component unmounts: the effect's cleanup runs
IOT_unmount ==
    /\ iotPc = "polling"
    /\ iotPc' = "unmounted"
    /\ iotInterval' = IOT_clearInterval(iotInterval)
    /\ ev' = Ev("unmount", "cleanup", "none")
    /\ UNCHANGED <<iotData, iotCalls, iotShown, iotRest>>

\* fetchIoTData's catch block: the request ends with the Error message
IOT_caught(r, cause, message) ==
    /\ IotSet(IotErrorData(message), r.seq)
    /\ iotCalls' = iotCalls (-) SetToBag({r})
    /\ ev' = EvResp("fetchIoTDataEnded", cause, "none", [seq |-> r.seq, over |-> iotShown, was |-> iotData])
    /\ UNCHANGED <<iotPc, iotInterval, iotRest>>

\* await fetch(...) settles: "ok" (2xx), "non2xx" (throws), "reject" (network error)
IOT_getSettled(r, outcome) ==
    /\ r.phase = "fetching"
    /\ CASE outcome = "ok" ->
              /\ iotCalls' = (iotCalls (-) SetToBag({r}))
                                (+) SetToBag({IotCall("json", r.seq)})
              /\ ev' = Task
              /\ UNCHANGED <<iotData, iotShown, iotPc, iotInterval, iotRest>>
         [] outcome = "non2xx" -> IOT_caught(r, "non2xx", IotMsgHttp)
         [] OTHER -> IOT_caught(r, "reject", MsgFetchRejected)

\* await response.json() rejects: the body is not JSON
IOT_jsonFailed(r) ==
    /\ r.phase = "json"
    /\ IOT_caught(r, "unparsable", IotMsgSyntax)

\* await response.json() settles with data: reading a field of null throws into the
\* catch block; of an object, validation, then setIoTData
IOT_jsonRead(r, data) ==
    /\ r.phase = "json"
    /\ IF data = NoResult
       THEN IOT_caught(r, "threw", IotMsgTypeError)
       ELSE /\ IF IotValid(data)
               THEN IotSet(IotReading(data.temperature, data.humidity, data.connected,
                                      data.lastUpdate), r.seq)
               ELSE UNCHANGED <<iotData, iotShown>>
            /\ iotCalls' = iotCalls (-) SetToBag({r})
            /\ ev' = EvResp("fetchIoTDataEnded",
                            IF IotValid(data) THEN "stored" ELSE "invalid", "none",
                            [seq |-> r.seq, over |-> iotShown, was |-> iotData,
                             body |-> data])
            /\ UNCHANGED <<iotPc, iotInterval, iotRest>>

\* checkCameraPermission settles while the page is mounted
IOT_checkCameraPermission(granted) ==
    /\ iotPc # "unmounted"
    /\ P0_checkCameraPermission(granted) \/ P1_checkCameraPermission(granted)

IOT_Next ==
    \/ IOT_pollingEffect
    \/ IOT_tick
    \/ IOT_unmount
    \/ \E r \in IotInFlight, o \in {"ok", "non2xx", "reject"} : IOT_getSettled(r, o)
    \/ \E r \in IotInFlight : IOT_jsonFailed(r)
    \/ \E r \in IotInFlight, d \in IotBodies : IOT_jsonRead(r, d)
    \/ \E g \in BOOLEAN : IOT_checkCameraPermission(g)

IOT_Spec == IOT_Init /\ [][IOT_Next]_vars

\* C17: in part_000 and part_001, once the component has unmounted (the cleanup of the
\* polling effect has run) no GET /get_iot_data request is started, however many
\* 2-second ticks elapse.
C17_NoFetchAfterUnmount ==
    [][ iotPc = "unmounted"
            => /\ ev'.op # "fetchIoTData"
               /\ BagCardinality(iotCalls') <= BagCardinality(iotCalls)
      ]_vars

\* after the unmount a tick has elapsed without a timer and no request is in flight
C17_Witness ==
    /\ iotPc = "unmounted"
    /\ ev.op = "tick"
    /\ ev.cause = "noTimer"
    /\ iotCalls = EmptyBag

\* C18: when the GET /get_iot_data of a mounted page rejects or answers non-2xx,
\* fetchIoTData replaces iotData by temperature 0, humidity 0, connected false and a
\* lastUpdate that begins with "Error: "; cameraError is not touched and no request is
\* started by the failure.
C18_FetchFailureZeroes ==
    [][ (/\ ev'.op = "fetchIoTDataEnded"
         /\ ev'.cause \in {"reject", "non2xx"}
         /\ iotPc # "unmounted")
            => /\ iotData'.temperature = Num(0)
               /\ iotData'.humidity = Num(0)
               /\ iotData'.connected = Bool(FALSE)
               /\ Head(iotData'.lastUpdate.chars) = "Error: "
               /\ cameraError' = cameraError
               /\ BagCardinality(iotCalls') = BagCardinality(iotCalls) - 1
      ]_vars

\* a non-2xx answer has just zeroed iotData while the permission error is on display
C18_Witness ==
    /\ ev.op = "fetchIoTDataEnded"
    /\ ev.cause = "non2xx"
    /\ iotPc = "polling"
    /\ iotData = IotErrorData(IotMsgHttp)
    /\ cameraError = MsgDenied

----------------------------------------------------------------------------
(* The ESP32 camera of SpoilageDetection.tsx with the identity of its frames: the    *)
(* refresh effect, the <img> that shows a frame, and a capture from the displayed    *)
(* URL to the POST.  The camera serves its current frame to every GET of /cam.jpg.   *)
(* The steps after the POST is sent are those of SD_Spec, folded into one here.      *)

\* the camera's frames are numbered 1..MaxFrames
MaxFrames == 3

\* the cells this part of the page does not write
e32Rest == <<scanMode, hasPermission, rev, isUploading, uploadedImage, capturedImage,
             ollamaResult, backendResponse, esp32Image, devicesPc, iotData, iotPc,
             iotInterval, iotCalls, arg, out, late>>

\* the GET of the <img> element for the URL on display
ImgLoad == [phase |-> "img"]
\* a capture: the frame on display at the click, the frame the browser's HTTP cache
\* holds for the URL handed on (0: none), the frame fetched for the POST (0: none yet)
Capture(phase, clicked, cached, blob) ==
    [phase |-> phase, origin |-> "camera", clicked |-> clicked, cached |-> cached,
     blob |-> blob]

\* the page as mounted, the camera at its first frame
E32_Init ==
    /\ scanMode = "camera"
    /\ isScanning = FALSE
    /\ scanResult = NoResult
    /\ cameraError = null
    /\ hasPermission = "null"
    /\ isModelLoading = TRUE
    /\ cameraSource = "laptop"
    /\ esp32ImageUrl = ""
    /\ esp32ImageLoading = FALSE
    /\ esp32Intervals = 0
    /\ webcam = "requesting"
    /\ modelPc = "pending"
    /\ calls = EmptyBag
    /\ rev = "SD"
    /\ isUploading = FALSE
    /\ uploadedImage = null
    /\ capturedImage = null
    /\ ollamaResult = NoResult
    /\ backendResponse = NoResult
    /\ esp32Image = null
    /\ devicesPc = "done"
    /\ iotData = mockIoTData
    /\ iotPc = "rendered"
    /\ iotInterval = 0
    /\ iotCalls = EmptyBag
    /\ cameraFrame = 1
    /\ displayedFrame = 0
    /\ arg = Nothing
    /\ out = Nothing
    /\ LateIdle
    /\ ev = Ev("mount", "none", "none")

\* the camera takes its next frame
E32_newFrame ==
    /\ cameraFrame < MaxFrames
    /\ cameraFrame' = cameraFrame + 1
    /\ ev' = Task
    /\ UNCHANGED <<isScanning, scanResult, cameraError, isModelLoading, modelPc,
                   cameraSource, esp32ImageUrl, esp32ImageLoading, esp32Intervals, webcam,
                   calls, displayedFrame, e32Rest>>

\* the model finishes loading (the Capture button is disabled until then)
E32_loadModel(loaded) == rev = "SD" /\ SD_loadModel(loaded)

\* fetchEsp32Image: a fresh URL is put on display and the <img> starts to load it, in
\* place of a load still under way
E32_fetchEsp32Image ==
    /\ esp32ImageLoading' = TRUE
    /\ esp32ImageUrl' = Esp32Url
    /\ calls' = (calls (-) SetToBag({ImgLoad})) (+) SetToBag({ImgLoad})

\* <select onChange> to the ESP32 camera: the [cameraSource] effect fetches at once and
\* sets the 1-second interval
E32_setCameraSource ==
    /\ scanMode = "camera"
    /\ cameraSource = "laptop"
    /\ cameraSource' = "esp32"
    /\ webcam' = "off"
    /\ E32_fetchEsp32Image
    /\ esp32Intervals' = esp32Intervals + 1
    /\ ev' = Ev("setCameraSource", "esp32", "none")
    /\ UNCHANGED <<isScanning, scanResult, cameraError, isModelLoading, modelPc,
                   cameraFrame, displayedFrame, e32Rest>>

\* setInterval(fetchEsp32Image, 1000) fires
E32_refreshTick ==
    /\ esp32Intervals > 0
    /\ E32_fetchEsp32Image
    /\ ev' = Ev("fetchEsp32Image", "tick", "none")
    /\ UNCHANGED <<isScanning, scanResult, cameraError, isModelLoading, modelPc,
                   cameraSource, esp32Intervals, webcam, cameraFrame, displayedFrame,
                   e32Rest>>

\* <img onLoad>: the camera's current frame is on display; <img onError>: the frame
\* shown before stays
E32_imgSettled(loaded) ==
    /\ ImgLoad \in InFlight
    /\ calls' = calls (-) SetToBag({ImgLoad})
    /\ displayedFrame' = IF loaded THEN cameraFrame ELSE displayedFrame
    /\ esp32ImageLoading' = FALSE
    /\ ev' = Ev("imgSettled", IF loaded THEN "onLoad" ELSE "onError", "none")
    /\ UNCHANGED <<isScanning, scanResult, cameraError, isModelLoading, modelPc,
                   cameraSource, esp32ImageUrl, esp32Intervals, webcam, cameraFrame,
                   e32Rest>>

\* the Capture & Analyze button with the ESP32 camera selected: handleCameraCapture and
\* handleImageAnalysis(esp32ImageUrl) up to await fetch(imageSrc)
E32_handleCameraCapture ==
    /\ scanMode = "camera"
    /\ cameraSource = "esp32"
    /\ SD_CaptureEnabled
    /\ scanResult' = NoResult
    /\ IF esp32ImageUrl # ""
       THEN /\ cameraError' = null
            /\ isScanning' = TRUE
            /\ calls' = calls (+) SetToBag({Capture("converting", displayedFrame,
                            IF ImgLoad \in InFlight THEN 0 ELSE displayedFrame, 0)})
            /\ ev' = Ev("handleCameraCapture", "dispatched", "camera")
            /\ UNCHANGED esp32ImageLoading
       ELSE /\ cameraError' = MsgNoEsp32
            /\ isScanning' = FALSE
            /\ esp32ImageLoading' = FALSE
            /\ ev' = Ev("handleCameraCapture", "threw", "camera")
            /\ UNCHANGED calls
    /\ UNCHANGED <<isModelLoading, modelPc, cameraSource, esp32ImageUrl, esp32Intervals,
                   webcam, cameraFrame, displayedFrame, e32Rest>>

\* the frames await fetch(imageSrc) can resolve with: the camera's current frame, or
\* the cached answer to the same URL
E32_Fetchable(r) == {cameraFrame} \cup (IF r.cached # 0 THEN {r.cached} ELSE {})

\* the catch and finally blocks of handleCameraCapture
E32_captureEnded(r, cause, msg, res) ==
    /\ calls' = calls (-) SetToBag({r})
    /\ cameraError' = msg
    /\ scanResult' = res
    /\ isScanning' = FALSE
    /\ esp32ImageLoading' = FALSE
    /\ ev' = Ev("analysisEnded", cause, "camera")
    /\ UNCHANGED <<isModelLoading, modelPc, cameraSource, esp32ImageUrl, esp32Intervals,
                   webcam, cameraFrame, displayedFrame, e32Rest>>

\* await fetch(imageSrc) and .blob() settle: frame f is appended to the form and posted,
\* or the fetch fails (f = 0)
E32_imageFetched(r, f) ==
    /\ r.phase = "converting"
    /\ IF f # 0
       THEN /\ f \in E32_Fetchable(r)
            /\ calls' = (calls (-) SetToBag({r}))
                            (+) SetToBag({Capture("posting", r.clicked, r.cached, f)})
            /\ ev' = EvResp("postSent", "sent", "camera",
                            [clicked |-> r.clicked, posted |-> f])
            /\ UNCHANGED <<isScanning, scanResult, cameraError, isModelLoading, modelPc,
                           cameraSource, esp32ImageUrl, esp32ImageLoading, esp32Intervals,
                           webcam, cameraFrame, displayedFrame, e32Rest>>
       ELSE E32_captureEnded(r, "convertReject", MsgFetchRejected, scanResult)

\* the POST ends: with a result, or in the catch block
E32_postSettled(r, succeeded) ==
    /\ r.phase = "posting"
    /\ IF succeeded
       THEN E32_captureEnded(r, "success", cameraError,
                             SD_bodyResult(Body(TRUE, "success", "apple", "absent", "absent")))
       ELSE E32_captureEnded(r, "reject", MsgFetchRejected, scanResult)

E32_Next ==
    \/ E32_newFrame
    \/ \E l \in BOOLEAN : E32_loadModel(l)
    \/ E32_setCameraSource
    \/ E32_refreshTick
    \/ \E l \in BOOLEAN : E32_imgSettled(l)
    \/ E32_handleCameraCapture
    \/ \E r \in InFlight, f \in 0..MaxFrames : E32_imageFetched(r, f)
    \/ \E r \in InFlight, k \in BOOLEAN : E32_postSettled(r, k)

E32_Spec == E32_Init /\ [][E32_Next]_vars

\* C19: with the ESP32 camera selected, the frame posted for analysis by a capture is
\* the frame that was on display when Capture & Analyze was clicked, whatever frames the
\* camera takes and whatever refresh ticks fire between the click and the POST.
C19_PostsDisplayedFrame ==
    [][ (ev'.op = "postSent" /\ ev'.resp.clicked # 0)
            => ev'.resp.posted = ev'.resp.clicked ]_vars

(* The simulated SpoilageDetection revision, src/unnamed/part_000 lines 781-1370.    *)
(* Its camera capture classifies the frame in the browser and then shows the mock    *)
(* result after a 3-second timer; an upload goes straight to the timer.  isLiveMode  *)
(* and autoScan have no control on the page and stay false, so the auto-scan timer   *)
(* never exists; resetScan has no button.  The simulated sensor interval writes      *)
(* iotData only and is left out.                                                     *)

\* const mockIoTData of the simulated revision
SIM_mockIoTData ==
    IotReading(Num(42 * (Unit \div 10)), Num(65 * Unit), Bool(TRUE), Text(<<"2 minutes ago">>))

SIM_Init ==
    /\ scanMode = "camera"
    /\ isScanning = FALSE
    /\ scanResult = NoResult
    /\ cameraError = null
    /\ hasPermission = "null"
    /\ isModelLoading = TRUE
    /\ cameraSource = "laptop"
    /\ esp32ImageUrl = ""
    /\ esp32ImageLoading = FALSE
    /\ esp32Intervals = 0
    /\ webcam = "requesting"
    /\ modelPc = "pending"
    /\ calls = EmptyBag
    /\ rev = "SIM"
    /\ isUploading = FALSE
    /\ uploadedImage = null
    /\ capturedImage = null
    /\ ollamaResult = NoResult
    /\ backendResponse = NoResult
    /\ esp32Image = null
    /\ devicesPc = "done"
    /\ iotData = SIM_mockIoTData
    /\ iotPc = "rendered"
    /\ iotInterval = 0
    /\ iotCalls = EmptyBag
    /\ cameraFrame = 0
    /\ displayedFrame = 0
    /\ arg = Nothing
    /\ out = Nothing
    /\ LateIdle
    /\ ev = Ev("mount", "none", "none")

\* the Webcam element is rendered on the camera tab while no result is shown, for the
\* laptop source
SIM_WebcamMounted(mode, source, res) == mode = "camera" /\ source = "laptop" /\ res = NoResult
\* the Webcam element after a render
SIM_webcamAfter(mode, source, res) ==
    IF ~SIM_WebcamMounted(mode, source, res) THEN "off"
    ELSE IF webcam = "off" THEN "requesting" ELSE webcam

\* a capture or an upload on its way: awaiting img.decode(), model.classify(img), or the
\* 3-second timer
SIM_Call(phase, origin) == [phase |-> phase, origin |-> origin]

\* <Tabs onValueChange>
SIM_setScanMode(m) ==
    /\ m # scanMode
    /\ scanMode' = m
    /\ webcam' = SIM_webcamAfter(m, cameraSource, scanResult)
    /\ ev' = Task
    /\ UNCHANGED <<hasPermission, isModelLoading, cameraSource, esp32ImageUrl,
                   esp32Intervals, modelPc>>
    /\ UNCHANGED sdScan
    /\ UNCHANGED others

\* <select onChange> and the [cameraSource] effect with the cleanup of the previous one
SIM_setCameraSource(s) ==
    /\ scanMode = "camera"
    /\ scanResult = NoResult
    /\ s # cameraSource
    /\ cameraSource' = s
    /\ webcam' = SIM_webcamAfter(scanMode, s, scanResult)
    /\ IF s = "esp32"
       THEN /\ esp32ImageLoading' = TRUE
            /\ esp32ImageUrl' = Esp32Url
            /\ esp32Intervals' = esp32Intervals + 1
       ELSE /\ esp32Intervals' = esp32Intervals - 1
            /\ UNCHANGED <<esp32ImageLoading, esp32ImageUrl>>
    /\ ev' = Ev("setCameraSource", s, "none")
    /\ UNCHANGED <<scanMode, hasPermission, isModelLoading, modelPc>>
    /\ UNCHANGED <<isScanning, scanResult, cameraError, calls>>
    /\ UNCHANGED others

\* the Capture & Analyze button: disabled={!!cameraError || isScanning || isModelLoading}
\* handleCameraCapture up to await img.decode(); without a screenshot it does nothing
SIM_handleCameraCapture ==
    /\ scanMode = "camera"
    /\ SD_CaptureEnabled
    /\ IF webcam = "streaming"
       THEN /\ Room
            /\ isScanning' = TRUE
            /\ calls' = Started(SIM_Call("decoding", "camera"))
            /\ ev' = Ev("handleCameraCapture", "dispatched", "camera")
       ELSE /\ ev' = Ev("handleCameraCapture", "noImage", "camera")
            /\ UNCHANGED <<isScanning, calls>>
    /\ UNCHANGED <<scanResult, cameraError, esp32ImageLoading>>
    /\ UNCHANGED sdPage

\* the catch block of handleCameraCapture: it stores the error and nothing else
SIM_caught(r, cause) ==
    /\ cameraError' = MsgAnalyze
    /\ calls' = Ended(r)
    /\ ev' = Ev("captureEnded", cause, r.origin)
    /\ UNCHANGED <<isScanning, scanResult, esp32ImageLoading>>
    /\ UNCHANGED sdPage

\* await img.decode() settles
SIM_decoded(r, ok) ==
    /\ r.phase = "decoding"
    /\ IF ok
       THEN /\ calls' = Moved(r, SIM_Call("classifying", r.origin))
            /\ ev' = Task
            /\ UNCHANGED <<isScanning, scanResult, cameraError, esp32ImageLoading>>
            /\ UNCHANGED sdPage
       ELSE SIM_caught(r, "decode")

\* await model.classify(img) settles; on success simulateScan() arms the timer
SIM_classified(r, ok) ==
    /\ r.phase = "classifying"
    /\ IF ok
       THEN /\ isScanning' = TRUE
            /\ calls' = Moved(r, SIM_Call("timer", r.origin))
            /\ ev' = Ev("simulateScan", "armed", r.origin)
            /\ UNCHANGED <<scanResult, cameraError, esp32ImageLoading>>
            /\ UNCHANGED sdPage
       ELSE SIM_caught(r, "classify")

\* <input type=file onChange>: handleFileUpload calls simulateAnalysis() for a file
SIM_handleFileUpload(hasFile) ==
    /\ scanMode = "upload"
    /\ IF hasFile
       THEN /\ Room
            /\ isScanning' = TRUE
            /\ calls' = Started(SIM_Call("timer", "upload"))
       ELSE UNCHANGED <<isScanning, calls>>
    /\ ev' = Ev("handleFileUpload", IF hasFile THEN "file" ELSE "nofile", "upload")
    /\ UNCHANGED <<scanResult, cameraError, esp32ImageLoading>>
    /\ UNCHANGED sdPage

\* the 3-second timer of simulateScan / simulateAnalysis fires; the result takes the
\* Webcam off the page
SIM_timerFired(r) ==
    /\ r.phase = "timer"
    /\ isScanning' = FALSE
    /\ scanResult' = mockSpoilageResult
    /\ webcam' = SIM_webcamAfter(scanMode, cameraSource, mockSpoilageResult)
    /\ calls' = Ended(r)
    /\ ev' = Ev("simulated", "shown", r.origin)
    /\ UNCHANGED <<cameraError, esp32ImageLoading>>
    /\ UNCHANGED <<scanMode, hasPermission, isModelLoading, cameraSource, esp32ImageUrl,
                   esp32Intervals, modelPc, others>>

\* setInterval(fetchImage, 2000) fires
SIM_fetchImage == SD_fetchEsp32Image

\* <img onLoad> / <img onError> of the ESP32 frame
SIM_esp32ImageSettled == scanResult = NoResult /\ SD_esp32ImageSettled

\* the steps the browser takes on its own: effects settling, promises, timers
SIM_Program ==
    \/ \E g \in BOOLEAN : SD_checkCameraPermission(g)
    \/ \E l \in BOOLEAN : SD_loadModel(l)
    \/ \E g \in BOOLEAN : SD_onUserMedia(g)
    \/ \E r \in InFlight, ok \in BOOLEAN : SIM_decoded(r, ok)
    \/ \E r \in InFlight, ok \in BOOLEAN : SIM_classified(r, ok)
    \/ \E r \in InFlight : SIM_timerFired(r)
    \/ SIM_fetchImage
    \/ SIM_esp32ImageSettled

\* the steps the user takes
SIM_User ==
    \/ \E m \in {"camera", "upload", "iot"} : SIM_setScanMode(m)
    \/ \E s \in {"laptop", "esp32"} : SIM_setCameraSource(s)
    \/ SIM_handleCameraCapture
    \/ \E f \in BOOLEAN : SIM_handleFileUpload(f)

SIM_Next == SIM_Program \/ SIM_User

SIM_Spec == SIM_Init /\ [][SIM_Next]_vars

\* every promise that settles and every timer that is due runs; the user may stop
SIM_FairSpec == SIM_Spec /\ WF_vars(SIM_Program)

\* C26: in the simulated revision every handleCameraCapture call that sets isScanning
\* to true is eventually followed by isScanning = false, when model.classify succeeds
\* and when image decoding or classification throws.
C26_CaptureScanningEnds ==
    (ev.op = "handleCameraCapture" /\ ev.cause = "dispatched") ~> ~isScanning

----------------------------------------------------------------------------
(* SpoilageDetection.tsx until it unmounts.  The steps of the mounted page are those *)
(* of SD_Spec; rev is "none" once the component has unmounted.                       *)

\* clearInterval(interval) left out of the cleanup
RF_clearInterval_Kept(n) == n
\* clearInterval(interval)
RF_clearInterval(n) == n - 1

\* the component unmounts: the cleanup the [cameraSource] effect returned runs (the
\* 'laptop' branch returns none), and the Webcam element goes with the page
RF_unmount ==
    /\ rev = "SD"
    /\ rev' = "none"
    /\ esp32Intervals' = IF cameraSource = "esp32" THEN RF_clearInterval(esp32Intervals)
                         ELSE esp32Intervals
    /\ webcam' = "off"
    /\ ev' = Ev("unmount", "cleanup", "none")
    /\ UNCHANGED <<scanMode, hasPermission, isModelLoading, cameraSource, esp32ImageUrl,
                   modelPc>>
    /\ UNCHANGED sdScan
    /\ UNCHANGED <<isUploading, uploadedImage, capturedImage, ollamaResult,
                   backendResponse, esp32Image, devicesPc, apart>>

\* a dispatch settles after the unmount: React drops its state updates
RF_settledUnmounted(r) ==
    /\ rev = "none"
    /\ calls' = Ended(r)
    /\ ev' = Ev("analysisEnded", "unmounted", r.origin)
    /\ UNCHANGED sdPage
    /\ UNCHANGED <<isScanning, scanResult, cameraError, esp32ImageLoading>>

RF_Init == SD_Init

RF_Next ==
    \/ rev = "SD" /\ SD_Next
    \/ RF_unmount
    \/ \E r \in InFlight : RF_settledUnmounted(r)

RF_Spec == RF_Init /\ [][RF_Next]_vars

\* C25: in SpoilageDetection.tsx, for any sequence of camera-source switches followed
\* by unmount, at most one ESP32 refresh interval is live, one is live only while
\* cameraSource = 'esp32' and the component is mounted, and with cameraSource =
\* 'laptop' (its effect has run) esp32ImageUrl is '' and esp32ImageLoading is false.
C25_OneRefreshInterval ==
    /\ esp32Intervals \in {0, 1}
    /\ esp32Intervals = 1 => (cameraSource = "esp32" /\ rev = "SD")
    /\ cameraSource = "laptop" => (esp32ImageUrl = "" /\ ~esp32ImageLoading)

\* the page was on the ESP32 source with a frame loading when it unmounted
C25_Witness ==
    /\ rev = "none"
    /\ ev.op = "unmount"
    /\ cameraSource = "esp32"
    /\ esp32ImageLoading
    /\ esp32Intervals = 0

----------------------------------------------------------------------------
(* Overlapping dispatches of SpoilageDetection.tsx, in the order they were started. *)
(* The handlers are those of SD_Spec; a dispatch carries the number it was started  *)
(* with (seq) and the result it stores carries that number (dispatch).  The camera   *)
(* source stays 'laptop': the ESP32 refresh effect is left to SD_Spec.               *)

\* dispatch numbers; the numbers restart once no dispatch is out and no result is shown
MaxDispatches == 3

\* the bodies of JsonBodies that differ in what handleImageAnalysis stores
SDO_JsonBodies ==
    {Body(TRUE, "success", "apple", "absent", "absent"),
     Body(TRUE, "error", "apple", "absent", "absent")}

\* a running handleImageAnalysis call, the seq-th that was started
SDO_Call(phase, origin, src, heldPrior, seq) ==
    [phase |-> phase, origin |-> origin, src |-> src, age |-> 0, heldPrior |-> heldPrior,
     seq |-> seq]
\* a FileReader and an aborted request belong to no running call
SDO_Seq(r) == IF r.phase \in {"reading", "aborted"} THEN 0 ELSE r.seq
\* the dispatch that produced the result on display (0: none)
SDO_Shown(res) == IF res = NoResult THEN 0 ELSE res.dispatch
\* the number of the next dispatch, res being on display
SDO_NextSeq(res) ==
    LET live == {SDO_Seq(r) : r \in InFlight} \cup {SDO_Shown(res)}
    IN  1 + (CHOOSE m \in live : \A x \in live : x <= m)

\* the record setScanResult stores, for dispatch k
SDO_bodyResult(b, k) ==
    [kind |-> "result", freshness |-> SD_bodyResult(b).freshness,
     status |-> SD_bodyResult(b).status, confidence |-> SD_bodyResult(b).confidence,
     predictedClass |-> SD_bodyResult(b).predictedClass, dispatch |-> k]

\* reader.onload: handleImageAnalysis(imageSrc) runs to its first await
SDO_readerOnload(r) ==
    /\ r.phase = "reading"
    /\ SDO_NextSeq(scanResult) <= MaxDispatches
    /\ isScanning' = TRUE
    /\ calls' = Moved(r, SDO_Call("converting", "upload", "data", scanResult # NoResult,
                                  SDO_NextSeq(scanResult)))
    /\ ev' = Task
    /\ UNCHANGED sdPage
    /\ UNCHANGED <<scanResult, cameraError, esp32ImageLoading>>

\* the Capture & Analyze button: handleCameraCapture up to its first await
SDO_handleCameraCapture ==
    /\ scanMode = "camera"
    /\ SD_CaptureEnabled
    /\ scanResult' = NoResult
    /\ IF SD_captureSource \in {"data", "esp32"}
       THEN /\ Room
            /\ SDO_NextSeq(NoResult) <= MaxDispatches
            /\ cameraError' = null
            /\ isScanning' = TRUE
            /\ calls' = ResultWritten(calls)
                            (+) SetToBag({SDO_Call("converting", "camera", SD_captureSource,
                                                   FALSE, SDO_NextSeq(NoResult))})
            /\ ev' = Ev("handleCameraCapture", "dispatched", "camera")
            /\ UNCHANGED esp32ImageLoading
       ELSE /\ cameraError' = SD_captureSource
            /\ isScanning' = FALSE
            /\ esp32ImageLoading' = FALSE
            /\ calls' = ResultWritten(calls)
            /\ ev' = Ev("handleCameraCapture", "threw", "camera")
    /\ UNCHANGED sdPage

\* await fetch(imageSrc) settles and the POST is sent, or the conversion fails
SDO_imageFetched(r, outcome) ==
    /\ r.phase = "converting"
    /\ outcome # "ok" => r.src = "esp32"
    /\ CASE outcome = "ok" ->
              /\ calls' = Moved(r, SDO_Call("posting", r.origin, "data", r.heldPrior, r.seq))
              /\ ev' = Ev("postSent", "sent", r.origin)
              /\ UNCHANGED sdPage
              /\ UNCHANGED <<isScanning, scanResult, cameraError, esp32ImageLoading>>
         [] outcome = "notok" -> SD_catchFinally(r, Ended(r), "convert", "none", MsgBlob)
         [] OTHER -> SD_catchFinally(r, Ended(r), "convertReject", "none", MsgFetchRejected)

\* a setScanResult that keeps the result of a dispatch started later than r
SDO_setScanResult_NewestStarted(r, res) ==
    IF SDO_Shown(scanResult) > r.seq THEN scanResult ELSE res
\* setScanResult({...}) in dispatch r: the value of scanResult after it
SDO_setScanResult(r, res) == res

\* await result.json() settles for a 2xx response: setScanResult + the finally blocks,
\* or the throw; the task records the dispatch whose result it replaced (over)
SDO_jsonRead(r, b) ==
    /\ r.phase = "json"
    /\ IF SD_bodyCause(b) = "success"
       THEN /\ scanResult' = SDO_setScanResult(r, SDO_bodyResult(b, r.seq))
            /\ isScanning' = FALSE
            /\ esp32ImageLoading' = IF r.origin = "camera" THEN FALSE
                                    ELSE esp32ImageLoading
            /\ calls' = ResultWritten(Ended(r))
            /\ ev' = EvResp("analysisEnded", "success", r.origin,
                            [kind |-> "success", seq |-> r.seq,
                             over |-> SDO_Shown(scanResult)])
            /\ UNCHANGED cameraError
            /\ UNCHANGED sdPage
       ELSE SD_catchFinally(r, Ended(r), SD_bodyCause(b), RespKind(TRUE, b),
                            SD_bodyMessage(b))

SDO_Init == SD_Init

SDO_Next ==
    \/ \E g \in BOOLEAN : SD_checkCameraPermission(g)
    \/ \E l \in BOOLEAN : SD_loadModel(l)
    \/ \E g \in BOOLEAN : SD_onUserMedia(g)
    \/ \E m \in {"camera", "upload", "iot"} : SD_setScanMode(m)
    \/ \E f \in BOOLEAN : SD_handleFileUpload(f)
    \/ \E r \in InFlight : SDO_readerOnload(r)
    \/ \E r \in InFlight : SD_readerError(r)
    \/ SDO_handleCameraCapture
    \/ \E r \in InFlight, o \in {"ok", "notok", "reject"} : SDO_imageFetched(r, o)
    \/ SD_Tick
    \/ \E r \in InFlight : SD_timeout(r)
    \/ \E r \in InFlight : SD_lateResponse(r)
    \/ \E r \in InFlight, ok \in BOOLEAN : SD_postResponds(r, ok)
    \/ \E r \in InFlight : SD_postRejects(r)
    \/ \E r \in InFlight : SD_errorTextRead(r)
    \/ \E r \in InFlight, b \in SDO_JsonBodies : SDO_jsonRead(r, b)

SDO_Spec == SDO_Init /\ [][SDO_Next]_vars

\* C23: in SpoilageDetection.tsx two dispatches can be pending at once and nothing
\* orders them: every response that arrives with status success becomes scanResult,
\* whichever dispatch was started first, so after both have settled scanResult is the
\* response that arrived last.
C23_LastArrivalWins ==
    [][ (ev'.op = "analysisEnded" /\ ev'.cause = "success")
            => /\ scanResult' # NoResult
               /\ scanResult'.dispatch = ev'.resp.seq
      ]_vars

\* two dispatches overlapped and both have settled: the one started first answered
\* last, and its result replaced the result of the one started after it
C23_Witness ==
    /\ ev.op = "analysisEnded"
    /\ ev.cause = "success"
    /\ ev.resp.over > ev.resp.seq
    /\ scanResult # NoResult
    /\ scanResult.dispatch = ev.resp.seq
    /\ calls = EmptyBag

----------------------------------------------------------------------------
----------------------------------------------------------------------------
(* Profile (src/unnamed/part_001 lines 987-1632): the committed profile, the copy being
   edited and the three add/remove lists.  A handler of this page is synchronous, so
   one action is one click or one selection.  The fields of UserProfile that only
   text inputs write behave as notifications.emailAlerts does and are left out. *)

\* the cells the Profile page does not have
pfRest == <<page, iotData, iotPc, iotInterval, iotCalls, cameraFrame, displayedFrame, arg,
            out, apiResult, iotShown, emailCells>>

\* Array.prototype.includes
Includes(list, x) == \E i \in 1..Len(list) : list[i] = x
\* Array.prototype.filter((e) => e !== x)
Without(list, x) == SelectSeq(list, LAMBDA e : e # x)

\* the guard of a handler that adds: newX && !list.includes(newX), without its test of
\* the list
Addable_NotCompared(list, x) == x # ""
\* the guard of addDietaryPreference, addAllergy, addHealthCondition and addRecipient
Addable(list, x) == x # "" /\ ~Includes(list, x)

\* what handleCancel stores in editedProfile, were the edited copy kept
PF_cancelled_Kept(committed, edited) == edited
\* handleCancel: setEditedProfile(profile)
PF_cancelled(committed, edited) == committed

\* const currentProfile = isEditing ? editedProfile : profile
currentProfile == IF isEditing THEN editedProfile ELSE profile

PF_Init ==
    /\ Unmounted("Profile")
    /\ iotData = mockIoTData
    /\ iotPc = "rendered"
    /\ iotInterval = 0
    /\ iotCalls = EmptyBag
    /\ cameraFrame = 0
    /\ displayedFrame = 0
    /\ arg = Nothing
    /\ out = Nothing
    /\ LateIdle
    /\ ev = Ev("mount", "none", "none")

\* the Edit Profile button, rendered while isEditing is false
PF_edit ==
    /\ rev = "Profile"
    /\ ~isEditing
    /\ isEditing' = TRUE
    /\ ev' = Ev("edit", "none", "none")
    /\ UNCHANGED <<profile, editedProfile, newDietaryPref, newAllergy, newHealthCondition,
                   pfRest>>

\* the Save Changes button, rendered while isEditing
PF_handleSave ==
    /\ rev = "Profile"
    /\ isEditing
    /\ profile' = editedProfile
    /\ isEditing' = FALSE
    /\ ev' = Ev("handleSave", IF editedProfile = profile THEN "same" ELSE "edited", "none")
    /\ UNCHANGED <<editedProfile, newDietaryPref, newAllergy, newHealthCondition, pfRest>>

\* the Cancel button, rendered while isEditing
PF_handleCancel ==
    /\ rev = "Profile"
    /\ isEditing
    /\ editedProfile' = PF_cancelled(profile, editedProfile)
    /\ isEditing' = FALSE
    /\ ev' = Ev("handleCancel", IF editedProfile = profile THEN "same" ELSE "edited", "none")
    /\ UNCHANGED <<profile, newDietaryPref, newAllergy, newHealthCondition, pfRest>>

\* the Email Alerts switch: (checked) => isEditing && setEditedProfile({...})
PF_setEmailAlerts(checked) ==
    /\ rev = "Profile"
    /\ isEditing
    /\ editedProfile' = [editedProfile EXCEPT !.notifications.emailAlerts = checked]
    /\ ev' = Ev("setEmailAlerts", "none", "none")
    /\ UNCHANGED <<profile, isEditing, newDietaryPref, newAllergy, newHealthCondition,
                   pfRest>>

\* the Selects, rendered while isEditing, offer the options the current list lacks
PF_setNewDietaryPref(option) ==
    /\ rev = "Profile"
    /\ isEditing
    /\ ~Includes(currentProfile.dietaryPreferences, option)
    /\ newDietaryPref' = option
    /\ ev' = Ev("setNewDietaryPref", "none", "dietaryPreferences")
    /\ UNCHANGED <<profile, isEditing, editedProfile, newAllergy, newHealthCondition,
                   pfRest>>

PF_setNewAllergy(option) ==
    /\ rev = "Profile"
    /\ isEditing
    /\ ~Includes(currentProfile.allergies, option)
    /\ newAllergy' = option
    /\ ev' = Ev("setNewAllergy", "none", "allergies")
    /\ UNCHANGED <<profile, isEditing, editedProfile, newDietaryPref, newHealthCondition,
                   pfRest>>

PF_setNewHealthCondition(option) ==
    /\ rev = "Profile"
    /\ isEditing
    /\ ~Includes(currentProfile.healthConditions, option)
    /\ newHealthCondition' = option
    /\ ev' = Ev("setNewHealthCondition", "none", "healthConditions")
    /\ UNCHANGED <<profile, isEditing, editedProfile, newDietaryPref, newAllergy, pfRest>>

\* the + buttons, rendered while isEditing; the step records the value offered
PF_addDietaryPreference ==
    /\ rev = "Profile"
    /\ isEditing
    /\ IF Addable(editedProfile.dietaryPreferences, newDietaryPref)
       THEN /\ editedProfile' =
                  [editedProfile EXCEPT !.dietaryPreferences = Append(@, newDietaryPref)]
            /\ newDietaryPref' = ""
            /\ ev' = EvResp("add", "added", "dietaryPreferences", newDietaryPref)
       ELSE /\ UNCHANGED <<editedProfile, newDietaryPref>>
            /\ ev' = EvResp("add", "rejected", "dietaryPreferences", newDietaryPref)
    /\ UNCHANGED <<profile, isEditing, newAllergy, newHealthCondition, pfRest>>

PF_addAllergy ==
    /\ rev = "Profile"
    /\ isEditing
    /\ IF Addable(editedProfile.allergies, newAllergy)
       THEN /\ editedProfile' = [editedProfile EXCEPT !.allergies = Append(@, newAllergy)]
            /\ newAllergy' = ""
            /\ ev' = EvResp("add", "added", "allergies", newAllergy)
       ELSE /\ UNCHANGED <<editedProfile, newAllergy>>
            /\ ev' = EvResp("add", "rejected", "allergies", newAllergy)
    /\ UNCHANGED <<profile, isEditing, newDietaryPref, newHealthCondition, pfRest>>

PF_addHealthCondition ==
    /\ rev = "Profile"
    /\ isEditing
    /\ IF Addable(editedProfile.healthConditions, newHealthCondition)
       THEN /\ editedProfile' =
                  [editedProfile EXCEPT !.healthConditions = Append(@, newHealthCondition)]
            /\ newHealthCondition' = ""
            /\ ev' = EvResp("add", "added", "healthConditions", newHealthCondition)
       ELSE /\ UNCHANGED <<editedProfile, newHealthCondition>>
            /\ ev' = EvResp("add", "rejected", "healthConditions", newHealthCondition)
    /\ UNCHANGED <<profile, isEditing, newDietaryPref, newAllergy, pfRest>>

\* the x button of a badge, rendered while isEditing for each entry of the list
PF_removeDietaryPreference(pref) ==
    /\ rev = "Profile"
    /\ isEditing
    /\ Includes(currentProfile.dietaryPreferences, pref)
    /\ editedProfile' = [editedProfile EXCEPT !.dietaryPreferences = Without(@, pref)]
    /\ ev' = EvResp("remove", "none", "dietaryPreferences", pref)
    /\ UNCHANGED <<profile, isEditing, newDietaryPref, newAllergy, newHealthCondition,
                   pfRest>>

PF_removeAllergy(allergy) ==
    /\ rev = "Profile"
    /\ isEditing
    /\ Includes(currentProfile.allergies, allergy)
    /\ editedProfile' = [editedProfile EXCEPT !.allergies = Without(@, allergy)]
    /\ ev' = EvResp("remove", "none", "allergies", allergy)
    /\ UNCHANGED <<profile, isEditing, newDietaryPref, newAllergy, newHealthCondition,
                   pfRest>>

PF_removeHealthCondition(condition) ==
    /\ rev = "Profile"
    /\ isEditing
    /\ Includes(currentProfile.healthConditions, condition)
    /\ editedProfile' = [editedProfile EXCEPT !.healthConditions = Without(@, condition)]
    /\ ev' = EvResp("remove", "none", "healthConditions", condition)
    /\ UNCHANGED <<profile, isEditing, newDietaryPref, newAllergy, newHealthCondition,
                   pfRest>>

PF_Next ==
    \/ PF_edit
    \/ PF_handleSave
    \/ PF_handleCancel
    \/ \E checked \in BOOLEAN : PF_setEmailAlerts(checked)
    \/ \E option \in dietaryOptions : PF_setNewDietaryPref(option)
    \/ \E option \in allergyOptions : PF_setNewAllergy(option)
    \/ \E option \in healthConditionOptions : PF_setNewHealthCondition(option)
    \/ PF_addDietaryPreference
    \/ PF_addAllergy
    \/ PF_addHealthCondition
    \/ \E pref \in dietaryOptions : PF_removeDietaryPreference(pref)
    \/ \E allergy \in allergyOptions : PF_removeAllergy(allergy)
    \/ \E condition \in healthConditionOptions : PF_removeHealthCondition(condition)

PF_Spec == PF_Init /\ [][PF_Next]_vars

\* C28: in Profile, whatever the sequence of edit, field-change, add, remove, save and
\* cancel steps, editedProfile equals profile whenever isEditing is false; profile
\* changes only in handleSave; and handleCancel leaves profile alone and puts the
\* committed profile back into editedProfile.
C28_EditsCommittedOnlyBySave ==
    [][ /\ ~isEditing' => editedProfile' = profile'
        /\ profile' # profile => ev'.op = "handleSave"
        /\ ev'.op = "handleCancel" => (profile' = profile /\ editedProfile' = profile)
      ]_vars

\* uncommitted edits were just cancelled on a profile that an earlier save had changed
C28_Witness ==
    /\ ev.op = "handleCancel"
    /\ ev.cause = "edited"
    /\ ~isEditing
    /\ profile # initialProfile

----------------------------------------------------------------------------
(* EmailSettings (src/src/pages/EmailSettings.tsx): the recipients list, the text typed
   for a new recipient and one of the switches that rewrite settings around it. *)

\* the cells the EmailSettings page does not have
esRest == <<page, iotData, iotPc, iotInterval, iotCalls, cameraFrame, displayedFrame, arg,
            out, apiResult, iotShown, profileCells>>

\* what the user may type into the "Add email address" input
ES_Texts == {"", "sarah.johnson@email.com", "lee@email.com"}

ES_Init ==
    /\ Unmounted("EmailSettings")
    /\ iotData = mockIoTData
    /\ iotPc = "rendered"
    /\ iotInterval = 0
    /\ iotCalls = EmptyBag
    /\ cameraFrame = 0
    /\ displayedFrame = 0
    /\ arg = Nothing
    /\ out = Nothing
    /\ LateIdle
    /\ ev = Ev("mount", "none", "none")

\* onChange={(e) => setNewRecipient(e.target.value)}
ES_setNewRecipient(text) ==
    /\ rev = "EmailSettings"
    /\ text # newRecipient
    /\ newRecipient' = text
    /\ ev' = Ev("setNewRecipient", "none", "recipients")
    /\ UNCHANGED <<settings, esRest>>

\* the + button or the Enter key of the input; the step records the value offered
ES_addRecipient ==
    /\ rev = "EmailSettings"
    /\ IF Addable(settings.recipients, newRecipient)
       THEN /\ settings' = [settings EXCEPT !.recipients = Append(@, newRecipient)]
            /\ newRecipient' = ""
            /\ ev' = EvResp("add", "added", "recipients", newRecipient)
       ELSE /\ UNCHANGED <<settings, newRecipient>>
            /\ ev' = EvResp("add", "rejected", "recipients", newRecipient)
    /\ UNCHANGED esRest

\* the x button of a row of Current Recipients
ES_removeRecipient(email) ==
    /\ rev = "EmailSettings"
    /\ Includes(settings.recipients, email)
    /\ settings' = [settings EXCEPT !.recipients = Without(@, email)]
    /\ ev' = EvResp("remove", "none", "recipients", email)
    /\ UNCHANGED <<newRecipient, esRest>>

\* the Daily Summary switch: setSettings({...settings, email: {...}})
ES_setDailySummary(checked) ==
    /\ rev = "EmailSettings"
    /\ settings' = [settings EXCEPT !.email.dailySummary = checked]
    /\ ev' = Ev("setDailySummary", "none", "none")
    /\ UNCHANGED <<newRecipient, esRest>>

ES_Next ==
    \/ \E text \in ES_Texts : ES_setNewRecipient(text)
    \/ ES_addRecipient
    \/ \E email \in ES_Texts : ES_removeRecipient(email)
    \/ \E checked \in BOOLEAN : ES_setDailySummary(checked)

(* Profile or EmailSettings, whichever page is open *)

PE_Init == PF_Init \/ ES_Init
PE_Next == PF_Next \/ ES_Next
PE_Spec == PE_Init /\ [][PE_Next]_vars

\* the lists that have an add and a remove handler, by the name of their field
PE_Fields == {"dietaryPreferences", "allergies", "healthConditions", "recipients"}
PE_List(f) ==
    CASE f = "dietaryPreferences" -> editedProfile.dietaryPreferences
      [] f = "allergies" -> editedProfile.allergies
      [] f = "healthConditions" -> editedProfile.healthConditions
      [] f = "recipients" -> settings.recipients

\* no entry is the empty string and no entry occurs twice
NoDuplicateNoEmpty(list) ==
    /\ \A i \in 1..Len(list) : list[i] # ""
    /\ \A i, j \in 1..Len(list) : list[i] = list[j] => i = j

\* C29: after any sequence of add and remove steps, dietaryPreferences, allergies and
\* healthConditions of Profile (edited and committed) and recipients of EmailSettings
\* hold no duplicate entry and no empty string; an add whose value is empty or already
\* in the list leaves the list as it was; and a remove of x leaves a list without x.
C29_ListsWithoutDuplicates ==
    /\ [](/\ \A f \in PE_Fields : NoDuplicateNoEmpty(PE_List(f))
          /\ NoDuplicateNoEmpty(profile.dietaryPreferences)
          /\ NoDuplicateNoEmpty(profile.allergies)
          /\ NoDuplicateNoEmpty(profile.healthConditions))
    /\ [][ \A f \in PE_Fields :
             /\ (/\ ev'.op = "add"
                 /\ ev'.origin = f
                 /\ (ev'.resp = "" \/ Includes(PE_List(f), ev'.resp)))
                    => PE_List(f)' = PE_List(f)
             /\ (ev'.op = "remove" /\ ev'.origin = f)
                    => ~Includes(PE_List(f)', ev'.resp)
         ]_vars

\* EmailSettings refused to add an address that its list, grown by an earlier add,
\* already holds
C29_Witness ==
    /\ rev = "EmailSettings"
    /\ ev.op = "add"
    /\ ev.cause = "rejected"
    /\ ev.resp # ""
    /\ Includes(settings.recipients, ev.resp)
    /\ Len(settings.recipients) = 2

\* the two success bodies of /extract_nutrition as documented: a status "success" body
\* with a nutrition object, and a source "ollama" body with an ollama_result object
SL_DocumentedNutrition == SL_Body(TRUE, "success", "absent", Nutrition("150"), Undefined)
SL_DocumentedOllama == SL_Body(TRUE, "absent", "ollama", Undefined, OllamaNutrition)

\* C12: the upload tab's Analyze handler of ScanLabel accepts both documented success
\* bodies of a 2xx response: for {status, nutrition} scanResult becomes the nutrition
\* object, for {source, ollama_result} it becomes the ollama_result object, and
\* cameraError stays null.
C12_DocumentedBodiesAccepted ==
    [][ (/\ ev'.op = "analysisEnded"
         /\ ev'.origin = "upload"
         /\ ev'.cause \in {"probed", "status"}
         /\ ev'.resp.ok)
            => /\ ev'.resp.body = SL_DocumentedNutrition
                    => (scanResult' = Nutrition("150") /\ cameraError' = null)
               /\ ev'.resp.body = SL_DocumentedOllama
                    => (scanResult' = OllamaNutrition /\ cameraError' = null)
      ]_vars

\* C13: runOcrAndParse treats a non-2xx response of /extract_nutrition as a failure
\* whatever its body: when it finishes, cameraError is set and scanResult is null.
C13_Non2xxFails ==
    [][ (/\ ev'.op = "analysisEnded"
         /\ ev'.cause \in {"probed", "status", "unparsable"}
         /\ ev'.resp.by = "parse"
         /\ ~ev'.resp.ok)
            => (cameraError' # null /\ scanResult' = NoResult)
      ]_vars

====
